---- MODULE Spec2Model ----
(***************************************************************************)
(* State-machine model of the CryptoBoy sentiment-to-trading pipeline:     *)
(* news poller, market streamer, consumer callbacks, sentiment processor,  *)
(* signal cacher and the strategy's sentiment lookup.                      *)
(*                                                                         *)
(* Texts are sequences of one-character strings, so that substring and     *)
(* keyword matching are computed the way the Python code computes them.    *)
(* Every component has its own next-state relation and specification; the  *)
(* components share no memory, so a component's actions leave the          *)
(* variables of the others unchanged.                                      *)
(***************************************************************************)
EXTENDS Integers, Sequences, FiniteSets, Bags, TLC

VARIABLES
    \* ---- news poller (services/data_ingestor/news_poller.py)
    published_articles,   \* NewsPoller.published_articles: set of article ids
    raw_news_data,        \* bag of the messages published to raw_news_data
    feed_idx,             \* index of the next feed of the running cycle
    cycle_count,          \* completed polling cycles
    publish_errors,       \* ids of the articles logged as "Failed to publish article"
    \* ---- market streamer (services/data_ingestor/market_streamer.py)
    last_candles,         \* MarketDataStreamer.last_candles: symbol -> timestamp_ms
    raw_market_data,      \* sequence of the messages published to raw_market_data
    task_pc,              \* per stream_symbol task: "watch", "sleep" or "done"
    \* ---- sentiment processor (services/sentiment_analyzer/sentiment_processor.py)
    news_ready,           \* raw_news_data at the broker: messages ready for delivery
    news_unacked,         \* the delivered, not yet acknowledged message (prefetch 1)
    news_settled,         \* ids of the messages acked or nacked without requeue
    news_sent,            \* number of messages put on raw_news_data
    sentiment_signals_queue, \* signals published to sentiment_signals_queue
    last_delivery,        \* what the callback did with the last delivery
    \* ---- consumer callbacks (rabbitmq_client.py, message_schemas.py)
    consumer_log,         \* handled deliveries and what the callback did
    \* ---- strategy (strategies/llm_sentiment_strategy.py)
    sentiment_csv,        \* the file data/sentiment_signals.csv
    sentiment_df,         \* self.sentiment_df
    bot_started,          \* bot_start has run
    last_populate,        \* the last populate_indicators call: frame used, result
    last_confirm,         \* the last confirm_trade_entry call: frame used, answer
    \* ---- signal cacher (services/signal_cacher/signal_cacher.py) and Redis
    cacher_ttl,           \* SignalCacher.cache_ttl
    cacher_stats,         \* deliveries handled, updates, errors (the counters of self.stats)
    cacher_boot,          \* the outcome of SignalCacher.__init__, once main() ran it
    sig_published,        \* the signals published to sentiment_signals_queue, in order
    sig_ready,            \* sentiment_signals_queue at the broker: ready messages
    schema_last,          \* the last payload handed to a message schema, and the outcome
    label_last,           \* the last score labelled by the processor and read by the monitor
    pairs_last,           \* the last TRADING_PAIRS the processor was started with, and the outcome
    env_last,             \* the last environment a service validated, and the outcome
    entry_last,           \* the last dataframe handed to populate_entry_trend, and the outcome
    prune_last,           \* the last pruning of the recent-seen set: its size and what was kept
    merge_last,           \* the last merge_with_market_data call: its inputs and the rows returned
    redis_last,           \* the last RedisClient data operation: its inputs and its outcome
    \* ---- connections (services/common/rabbitmq_client.py, redis_client.py)
    rabbitmq,             \* RabbitMQClient: state of self.connection and self.channel
    redis_connection,     \* the redis object of the cacher's RedisClient: "open" or "closed"
    call_log,             \* operations on the clients and the close calls each one made
    connect_last,         \* the last RabbitMQClient.connect() call: its attempts and outcome
    ensure_last           \* the last RabbitMQClient.ensure_connection() call

pollerVars == <<published_articles, raw_news_data, feed_idx, cycle_count, publish_errors>>
streamerVars == <<last_candles, raw_market_data, task_pc>>

procVars == <<news_ready, news_unacked, news_settled, news_sent,
              sentiment_signals_queue, last_delivery>>
consumerVars == <<consumer_log>>

strategyVars == <<sentiment_csv, sentiment_df, bot_started, last_populate, last_confirm>>

cacherVars == <<cacher_ttl, cacher_stats, cacher_boot, sig_published, sig_ready>>

fnVars == <<schema_last, label_last, pairs_last, env_last, entry_last, prune_last,
           merge_last, redis_last>>

clientVars == <<rabbitmq, redis_connection, call_log, connect_last, ensure_last>>

vars == <<pollerVars, streamerVars, procVars, consumerVars, strategyVars, cacherVars,
          fnVars, clientVars>>

(***************************************************************************)
(* Bounds of the model                                                     *)
(***************************************************************************)
MaxCycles == 3        \* polling cycles explored
MaxEntries == 2       \* entries one fetch of a feed returns
MaxTs == 3            \* largest candle timestamp the exchange delivers
MaxBatch == 2         \* candles one watch_ohlcv call returns
MaxNews == 2          \* messages put on raw_news_data
MaxDeliveries == 2    \* deliveries handled by the stand-alone consumer callbacks
MaxHour == 5          \* latest hour of a candle or a signal
MaxRows == 2          \* rows of the sentiment CSV file
MaxSignals == 2       \* signals published to sentiment_signals_queue
MaxPairEntries == 2   \* comma-separated entries of TRADING_PAIRS
MaxClientCalls == 4   \* operations on the broker and cache connections
MaxMergeHour == 8     \* latest hour of a candle handed to the merge
MaxTtl == 2           \* largest cache TTL, in seconds
MaxOver == 2          \* ids above the pruning threshold at the end of a cycle
MaxRetries == 3       \* largest max_retries a client is constructed with

(***************************************************************************)
(* Text helpers                                                            *)
(***************************************************************************)
\* A text is a sequence of characters. A printable ASCII character is
\* written as itself, tab, line feed, form feed and carriage return as "\t",
\* "\n", "\f" and "\r", and every other character by its code point, U+XXXX;
\* so is the grave accent, U+0060, which a string of this language cannot hold

\* Python `needle in text` on strings
Contains(text, needle) ==
    \E i \in 1..(Len(text) - Len(needle) + 1) :
        SubSeq(text, i, i + Len(needle) - 1) = needle

\* the pieces of a list of texts, one after the other
RECURSIVE Flatten(_)
Flatten(pieces) ==
    IF Len(pieces) = 0 THEN << >>
    ELSE IF Len(pieces) = 1 THEN pieces[1]
    ELSE Flatten(SubSeq(pieces, 1, Len(pieces) \div 2))
            \o Flatten(SubSeq(pieces, Len(pieces) \div 2 + 1, Len(pieces)))

\* str.split(sep) for a separator of one character
RECURSIVE split(_, _)
split(text, sep) ==
    LET at == {k \in 1..Len(text) : text[k] = sep}
    IN  IF at = {} THEN <<text>>
        ELSE LET k == CHOOSE i \in at : \A j \in at : i <= j
             IN  <<SubSeq(text, 1, k - 1)>> \o split(SubSeq(text, k + 1, Len(text)), sep)

\* the printable ASCII characters; U+0060 is the grave accent
VisibleAscii ==
    {" ", "!", "\"", "#", "$", "%", "&", "'", "(", ")", "*", "+", ",", "-",
     ".", "/", "0", "1", "2", "3", "4", "5", "6", "7", "8", "9", ":", ";",
     "<", "=", ">", "?", "@", "A", "B", "C", "D", "E", "F", "G", "H", "I",
     "J", "K", "L", "M", "N", "O", "P", "Q", "R", "S", "T", "U", "V", "W",
     "X", "Y", "Z", "[", "\\", "]", "^", "_", "U+0060", "a", "b", "c", "d",
     "e", "f", "g", "h", "i", "j", "k", "l", "m", "n", "o", "p", "q", "r",
     "s", "t", "u", "v", "w", "x", "y", "z", "{", "|", "}", "~"}

\* the characters the texts of the model are written with: the ASCII
\* characters but eleven control characters, and the characters outside
\* ASCII named here. What Python's Unicode tables say of a character
\* (str.lower, str.upper, str.isspace, str.isdigit, int, the regex \w, NFKC)
\* is stated for these characters and for no other
Alphabet ==
    VisibleAscii \cup
    {"U+0000", "U+0001", "U+0002", "U+0003", "U+0004", "U+0005", "U+0006",
     "U+0007", "U+0008", "\t", "\n", "U+000B", "\f", "\r", "U+000E",
     "U+000F", "U+0010", "U+0011", "U+0012", "U+0013", "U+0014", "U+0015",
     "U+0016", "U+0017", "U+0018", "U+0019", "U+001A", "U+001B", "U+001C",
     "U+001D", "U+001E", "U+001F", "U+007F", "U+0085", "U+00A0", "U+00B2",
     "U+00B3", "U+00B7", "U+00B9", "U+00C4", "U+00C9", "U+00DF", "U+00E4",
     "U+00E9", "U+0130", "U+0131", "U+017F", "U+01C4", "U+01C5", "U+01C6",
     "U+0307", "U+03A3", "U+03A9", "U+03C2", "U+03C3", "U+03C9", "U+0660",
     "U+0661", "U+0662", "U+0663", "U+0664", "U+0665", "U+0666", "U+0667",
     "U+0668", "U+0669", "U+0966", "U+0967", "U+0968", "U+0969", "U+096A",
     "U+096B", "U+096C", "U+096D", "U+096E", "U+096F", "U+1680", "U+1E9E",
     "U+2000", "U+2001", "U+2002", "U+2003", "U+2004", "U+2005", "U+2006",
     "U+2007", "U+2008", "U+2009", "U+200A", "U+200B", "U+2028", "U+2029",
     "U+202F", "U+2047", "U+2048", "U+2049", "U+205F", "U+2083", "U+2100",
     "U+2101", "U+2105", "U+2106", "U+2126", "U+212A", "U+2460", "U+2A74",
     "U+3000", "U+FB01", "U+FE13", "U+FE16", "U+FE55", "U+FE56", "U+FE5F",
     "U+FE6B", "U+FEFF", "U+FF03", "U+FF0F", "U+FF10", "U+FF11", "U+FF12",
     "U+FF13", "U+FF14", "U+FF15", "U+FF16", "U+FF17", "U+FF18", "U+FF19",
     "U+FF1A", "U+FF1F", "U+FF20", "U+FF21", "U+FF41"}

\* c belongs to a class of characters; a character outside the alphabet has
\* no value here, so a text that holds one has no lower(), strip(), ...
In(c, class) == CASE c \in class -> TRUE [] c \in Alphabet -> FALSE

UpperToLower ==
    [c \in {"A","B","C","D","E","F","G","H","I","J","K","L","M","N","O","P","Q",
            "R","S","T","U","V","W","X","Y","Z"} |->
       CASE c = "A" -> "a" [] c = "B" -> "b" [] c = "C" -> "c" [] c = "D" -> "d"
         [] c = "E" -> "e" [] c = "F" -> "f" [] c = "G" -> "g" [] c = "H" -> "h"
         [] c = "I" -> "i" [] c = "J" -> "j" [] c = "K" -> "k" [] c = "L" -> "l"
         [] c = "M" -> "m" [] c = "N" -> "n" [] c = "O" -> "o" [] c = "P" -> "p"
         [] c = "Q" -> "q" [] c = "R" -> "r" [] c = "S" -> "s" [] c = "T" -> "t"
         [] c = "U" -> "u" [] c = "V" -> "v" [] c = "W" -> "w" [] c = "X" -> "x"
         [] c = "Y" -> "y" [] c = "Z" -> "z"]

AsciiUpper ==
    {"A","B","C","D","E","F","G","H","I","J","K","L","M",
     "N","O","P","Q","R","S","T","U","V","W","X","Y","Z"}
AsciiLower ==
    {"a","b","c","d","e","f","g","h","i","j","k","l","m",
     "n","o","p","q","r","s","t","u","v","w","x","y","z"}
AsciiDigits == <<"0","1","2","3","4","5","6","7","8","9">>
AsciiDigitSet == {"0","1","2","3","4","5","6","7","8","9"}

\* the characters outside ASCII that str.lower() and str.upper() change,
\* with what they become; capital sigma is apart, its lower case depends on
\* its place in the word
LowerOutsideAscii ==
    ("U+00C4" :> <<"U+00E4">>)
    @@ ("U+00C9" :> <<"U+00E9">>)
    @@ ("U+0130" :> <<"i", "U+0307">>)
    @@ ("U+01C4" :> <<"U+01C6">>)
    @@ ("U+01C5" :> <<"U+01C6">>)
    @@ ("U+03A9" :> <<"U+03C9">>)
    @@ ("U+1E9E" :> <<"U+00DF">>)
    @@ ("U+2126" :> <<"U+03C9">>)
    @@ ("U+212A" :> <<"k">>)
    @@ ("U+FF21" :> <<"U+FF41">>)
UpperOutsideAscii ==
    ("U+00DF" :> <<"S", "S">>)
    @@ ("U+00E4" :> <<"U+00C4">>)
    @@ ("U+00E9" :> <<"U+00C9">>)
    @@ ("U+0131" :> <<"I">>)
    @@ ("U+017F" :> <<"S">>)
    @@ ("U+01C5" :> <<"U+01C4">>)
    @@ ("U+01C6" :> <<"U+01C4">>)
    @@ ("U+03C2" :> <<"U+03A3">>)
    @@ ("U+03C3" :> <<"U+03A3">>)
    @@ ("U+03C9" :> <<"U+03A9">>)
    @@ ("U+FB01" :> <<"F", "I">>)
    @@ ("U+FF41" :> <<"U+FF21">>)

\* the cased characters, and the characters a word's case mapping looks
\* through (apostrophe, full stop, colon, circumflex, grave accent, ...)
Cased ==
    AsciiUpper \cup AsciiLower \cup
    {"U+00C4", "U+00C9", "U+00DF", "U+00E4", "U+00E9", "U+0130", "U+0131",
     "U+017F", "U+01C4", "U+01C5", "U+01C6", "U+03A3", "U+03A9", "U+03C2",
     "U+03C3", "U+03C9", "U+1E9E", "U+2126", "U+212A", "U+FB01", "U+FF21",
     "U+FF41"}
CaseIgnorable ==
    {"'", ".", ":", "^", "U+0060", "U+00B7", "U+0307", "U+200B", "U+FE13",
     "U+FE55", "U+FEFF", "U+FF1A"}

\* str.lower() on a capital sigma: it ends a word when a cased character
\* comes before it and none after it, case-ignorable characters skipped
final_sigma(text, i) ==
    LET before == {j \in 1..(i - 1) : ~In(text[j], CaseIgnorable)}
        after == {j \in (i + 1)..Len(text) : ~In(text[j], CaseIgnorable)}
    IN  /\ before # {}
        /\ In(text[CHOOSE j \in before : \A k \in before : k <= j], Cased)
        /\ \/ after = {}
           \/ ~In(text[CHOOSE j \in after : \A k \in after : j <= k], Cased)

\* str.lower()
Lower(text) ==
    Flatten([i \in 1..Len(text) |->
        CASE text[i] \in AsciiUpper -> <<UpperToLower[text[i]]>>
          [] text[i] = "U+03A3" ->
                IF final_sigma(text, i) THEN <<"U+03C2">> ELSE <<"U+03C3">>
          [] text[i] \in DOMAIN LowerOutsideAscii -> LowerOutsideAscii[text[i]]
          [] text[i] \in Alphabet -> <<text[i]>>])

\* the characters str.isspace() is true of
Whitespace ==
    {"\t", "\n", "U+000B", "\f", "\r", "U+001C", "U+001D", "U+001E",
     "U+001F", " ", "U+0085", "U+00A0", "U+1680", "U+2000", "U+2001",
     "U+2002", "U+2003", "U+2004", "U+2005", "U+2006", "U+2007", "U+2008",
     "U+2009", "U+200A", "U+2028", "U+2029", "U+202F", "U+205F", "U+3000"}

\* Python slice text[:n]
Prefix(text, n) == SubSeq(text, 1, IF Len(text) < n THEN Len(text) ELSE n)

(***************************************************************************)
(* News poller                                                             *)
(***************************************************************************)
\* NewsPoller.DEFAULT_FEEDS: the model polls two of the five feeds, in order
feeds == <<"coindesk", "theblock">>

crypto_keywords ==
  << <<"b","i","t","c","o","i","n">>,
     <<"b","t","c">>,
     <<"e","t","h","e","r","e","u","m">>,
     <<"e","t","h">>,
     <<"c","r","y","p","t","o">>,
     <<"c","r","y","p","t","o","c","u","r","r","e","n","c","y">>,
     <<"b","l","o","c","k","c","h","a","i","n">>,
     <<"d","e","f","i">>,
     <<"n","f","t">>,
     <<"a","l","t","c","o","i","n">>,
     <<"t","r","a","d","i","n","g">>,
     <<"e","x","c","h","a","n","g","e">>,
     <<"b","i","n","a","n","c","e">>,
     <<"c","o","i","n","b","a","s","e">>,
     <<"m","a","r","k","e","t">>,
     <<"p","r","i","c","e">>,
     <<"b","u","l","l">>,
     <<"b","e","a","r">>,
     <<"b","n","b">>,
     <<"u","s","d","t">>,
     <<"t","e","t","h","e","r">>,
     <<"r","i","p","p","l","e">>,
     <<"x","r","p">>,
     <<"c","a","r","d","a","n","o">>,
     <<"a","d","a">>,
     <<"s","o","l","a","n","a">>,
     <<"s","o","l">>,
     <<"p","o","l","k","a","d","o","t">>,
     <<"d","o","t">>,
     <<"d","o","g","e","c","o","i","n">>,
     <<"d","o","g","e">> >>

\* hashlib.md5 of f"{title}_{link}": the digest is modelled as the hashed
\* string itself (md5 taken as collision free)
_generate_article_id(title, link) == title \o <<"_">> \o link

_is_crypto_relevant(title, content) ==
    LET text == Lower(title \o <<" ">> \o content)
    IN  \E k \in 1..Len(crypto_keywords) : Contains(text, crypto_keywords[k])

PruneHigh == 10000
PruneKeep == 8000

\* Feed entries one fetch can return (title, link, cleaned content)
FeedTitles == { <<"B","T","C">>, <<"c","a","t">> }
FeedLinks == { <<"u","1">>, <<"u","2">> }
FeedContents == { <<"n","e","w","s">> }
FeedEntries == [title : FeedTitles, link : FeedLinks, content : FeedContents]
FeedResults == UNION { [1..n -> FeedEntries] : n \in 0..MaxEntries }

RECURSIVE FetchEntries(_, _, _, _)
\* the loop over feed.entries of _fetch_feed: `seen` is published_articles,
\* which the loop reads and never writes
FetchEntries(seen, source_name, entries, k) ==
    IF k > Len(entries) THEN <<>>
    ELSE LET e == entries[k]
             article_id == _generate_article_id(e.title, e.link)
             rest == FetchEntries(seen, source_name, entries, k + 1)
         IN  IF article_id \in seen THEN rest
             ELSE IF ~_is_crypto_relevant(e.title, e.content) THEN rest
             ELSE << [article_id |-> article_id, source |-> source_name,
                      title |-> e.title, link |-> e.link,
                      content |-> Prefix(e.content, 2000)] >> \o rest

_fetch_feed(seen, source_name, entries) ==
    FetchEntries(seen, source_name, entries, 1)

\* mutant: the article id is tracked whether or not the publish went through
publish_article_tracked(st, article, ok) ==
    [seen   |-> st.seen \cup {article.article_id},
     queue  |-> IF ok THEN st.queue (+) SetToBag({article}) ELSE st.queue,
     errors |-> IF ok THEN st.errors
                ELSE st.errors \cup {article.article_id}]

\* _poll_all_feeds, the body of the loop over articles: publish, then track
\* the id; an exception of publish is logged. st = [seen, queue, errors]
publish_article(st, article, ok) ==
    IF ok
    THEN [seen   |-> st.seen \cup {article.article_id},
          queue  |-> st.queue (+) SetToBag({article}),
          errors |-> st.errors]
    ELSE [seen   |-> st.seen,
          queue  |-> st.queue,
          errors |-> st.errors \cup {article.article_id}]

RECURSIVE PublishArticles(_, _, _, _)
\* the loop over articles of _poll_all_feeds; `fails` are the positions whose
\* rabbitmq.publish raises
PublishArticles(st, articles, fails, k) ==
    IF k > Len(articles) THEN st
    ELSE PublishArticles(publish_article(st, articles[k], k \notin fails),
                         articles, fails, k + 1)

\* list(self.published_articles)[-8000:] : a Python set iterates in hash
\* order, so which 8000 ids survive is not determined by insertion order
PruneChoices(seen) ==
    IF Cardinality(seen) > PruneHigh
    THEN { keep \in SUBSET seen : Cardinality(keep) = PruneKeep }
    ELSE { seen }

\* One iteration of the loop over self.feeds in _poll_all_feeds; the last
\* iteration of a cycle also runs the pruning that ends _poll_all_feeds.
PollFeed(entries, fails) ==
    /\ feed_idx \in 1..Len(feeds)
    /\ LET articles == _fetch_feed(published_articles, feeds[feed_idx], entries)
           st == PublishArticles([seen |-> published_articles, queue |-> raw_news_data,
                                  errors |-> publish_errors],
                                 articles, fails \cap (1..Len(articles)), 1)
       IN  /\ raw_news_data' = st.queue
           /\ publish_errors' = st.errors
           /\ IF feed_idx < Len(feeds)
              THEN /\ published_articles' = st.seen
                   /\ feed_idx' = feed_idx + 1
                   /\ cycle_count' = cycle_count
              ELSE /\ published_articles' \in PruneChoices(st.seen)
                   /\ feed_idx' = 0
                   /\ cycle_count' = cycle_count + 1
    /\ UNCHANGED <<streamerVars, procVars, consumerVars, strategyVars, cacherVars, fnVars, clientVars>>

\* run(): the next cycle starts after the poll_interval sleep
StartCycle ==
    /\ feed_idx = 0
    /\ cycle_count < MaxCycles
    /\ feed_idx' = 1
    /\ UNCHANGED <<published_articles, raw_news_data, cycle_count, publish_errors>>
    /\ UNCHANGED <<streamerVars, procVars, consumerVars, strategyVars, cacherVars, fnVars, clientVars>>

PollerInit ==
    /\ published_articles = {}
    /\ publish_errors = {}
    /\ raw_news_data = EmptyBag
    /\ feed_idx = 0
    /\ cycle_count = 0

PollerNext ==
    \/ StartCycle
    \/ \E entries \in FeedResults, fails \in SUBSET (1..MaxEntries) :
          PollFeed(entries, fails)

(***************************************************************************)
(* Market streamer                                                         *)
(***************************************************************************)
\* self.symbols: one stream_symbol task per list element. TRADING_PAIRS may
\* name a pair twice; the two tasks then share last_candles[pair].
symbols == <<"BTC/USDT", "ETH/USDT", "BTC/USDT">>
Tasks == 1..Len(symbols)

Candles == [timestamp_ms : 0..MaxTs]
CandleBatches == UNION { [1..n -> Candles] : n \in 0..MaxBatch }

\* self.last_candles.get(symbol, 0)
LastTs(lc, symbol) == IF symbol \in DOMAIN lc THEN lc[symbol] ELSE 0

\* mutant: the comparison admits a timestamp equal to the last one
_should_publish_candle_ge(lc, symbol, timestamp_ms) ==
    timestamp_ms >= LastTs(lc, symbol)

\* _should_publish_candle: the decision it returns
_should_publish_candle(lc, symbol, timestamp_ms) ==
    timestamp_ms > LastTs(lc, symbol)

\* _should_publish_candle: its write to self.last_candles
RecordCandle(lc, symbol, timestamp_ms) ==
    IF _should_publish_candle(lc, symbol, timestamp_ms)
    THEN [s \in DOMAIN lc \cup {symbol} |->
             IF s = symbol THEN timestamp_ms ELSE lc[s]]
    ELSE lc

_format_candle_message(symbol, candle) ==
    [symbol |-> symbol, timestamp_ms |-> candle.timestamp_ms]

\* stream_symbol: watch_ohlcv returned `candles`; everything up to the next
\* await runs without suspension. publish_ok = FALSE: rabbitmq.publish (or
\* the formatting of the message) raised, which the loop answers by sleeping.
WatchReturns(t, candles, publish_ok) ==
    /\ task_pc[t] = "watch"
    /\ IF candles = <<>>
       THEN UNCHANGED streamerVars
       ELSE LET latest_candle == candles[Len(candles)]
                timestamp_ms == latest_candle.timestamp_ms
            IN  IF _should_publish_candle(last_candles, symbols[t], timestamp_ms)
                THEN /\ last_candles' = RecordCandle(last_candles, symbols[t], timestamp_ms)
                     /\ IF publish_ok
                        THEN /\ raw_market_data' = Append(raw_market_data,
                                    _format_candle_message(symbols[t], latest_candle))
                             /\ UNCHANGED task_pc
                        ELSE /\ task_pc' = [task_pc EXCEPT ![t] = "sleep"]
                             /\ UNCHANGED raw_market_data
                ELSE UNCHANGED streamerVars
    /\ UNCHANGED <<pollerVars, procVars, consumerVars, strategyVars, cacherVars, fnVars, clientVars>>

\* mutant: the error leaves the loop through the outer handler ("Fatal error
\* streaming") and ends the task
WatchRaises_fatal(t) ==
    /\ task_pc[t] = "watch"
    /\ task_pc' = [task_pc EXCEPT ![t] = "failed"]
    /\ UNCHANGED <<last_candles, raw_market_data>>
    /\ UNCHANGED <<pollerVars, procVars, consumerVars, strategyVars, cacherVars, fnVars, clientVars>>

\* stream_symbol: watch_ohlcv raised NetworkError, ExchangeError or another
\* Exception
WatchRaises(t) ==
    /\ task_pc[t] = "watch"
    /\ task_pc' = [task_pc EXCEPT ![t] = "sleep"]
    /\ UNCHANGED <<last_candles, raw_market_data>>
    /\ UNCHANGED <<pollerVars, procVars, consumerVars, strategyVars, cacherVars, fnVars, clientVars>>

\* stream_symbol: asyncio.sleep(5) returned
SleepDone(t) ==
    /\ task_pc[t] = "sleep"
    /\ task_pc' = [task_pc EXCEPT ![t] = "watch"]
    /\ UNCHANGED <<last_candles, raw_market_data>>
    /\ UNCHANGED <<pollerVars, procVars, consumerVars, strategyVars, cacherVars, fnVars, clientVars>>

\* stream_symbol: CancelledError is raised at the await the task is
\* suspended at
CancelTask(t) ==
    /\ task_pc[t] \in {"watch", "sleep"}
    /\ task_pc' = [task_pc EXCEPT ![t] = "done"]
    /\ UNCHANGED <<last_candles, raw_market_data>>
    /\ UNCHANGED <<pollerVars, procVars, consumerVars, strategyVars, cacherVars, fnVars, clientVars>>

StreamerInit ==
    /\ last_candles = << >>
    /\ raw_market_data = << >>
    /\ task_pc = [t \in Tasks |-> "watch"]

StreamerNext ==
    \/ \E t \in Tasks, candles \in CandleBatches, publish_ok \in BOOLEAN :
          WatchReturns(t, candles, publish_ok)
    \/ \E t \in Tasks : WatchRaises(t)
    \/ \E t \in Tasks : SleepDone(t)
    \/ \E t \in Tasks : CancelTask(t)

(***************************************************************************)
(* JSON values and message bodies                                          *)
(***************************************************************************)
\* A decoded JSON value is [t, v]: t its Python type, v its value
JStr(chars) == [t |-> "str", v |-> chars]
JInt(n) == [t |-> "int", v |-> n]
JNull == [t |-> "null", v |-> << >>]
JList(items) == [t |-> "list", v |-> items]
JObj(fields) == [t |-> "dict", v |-> fields]

\* A message body is bytes. The two wrappers read it differently:
\* create_consumer_callback with json.loads(body.decode('utf-8')),
\* safe_message_consumer with json.loads(body), which detects UTF-8 (with or
\* without a byte-order mark), UTF-16 and UTF-32 from the first bytes. A
\* body is given by what each reading gives, "value", "JSONDecodeError" or
\* "UnicodeDecodeError", and by the JSON value v it holds
Body(utf8, detected, value) == [utf8 |-> utf8, detected |-> detected, v |-> value]

\* b'\x80': no UTF-8, and UTF-8 is what json.loads takes it for
BadUtf8 == Body("UnicodeDecodeError", "UnicodeDecodeError", JNull)
\* b'not json': UTF-8 text that is no JSON text
BadJson == Body("JSONDecodeError", "JSONDecodeError", JNull)
\* the UTF-8 encoding of a JSON text, without a byte-order mark
JsonBody(value) == Body("value", "value", value)
\* a JSON text in UTF-16 or UTF-32 with a byte-order mark: never valid UTF-8
Utf16Body(value) == Body("UnicodeDecodeError", "value", value)
\* b'\xff\xfe': a byte-order mark and no text
Utf16BadJson == Body("UnicodeDecodeError", "JSONDecodeError", JNull)
\* an ASCII JSON text in UTF-16 or UTF-32 without a byte-order mark, or in
\* UTF-8 after a byte-order mark: valid UTF-8 that is no JSON text, and a
\* JSON text once json.loads has detected the encoding
DetectedBody(value) == Body("JSONDecodeError", "value", value)
\* b'{\x00}\x00"': valid UTF-8 that is no JSON text, taken by json.loads for
\* UTF-16, which it is not
TruncatedUtf16 == Body("JSONDecodeError", "UnicodeDecodeError", JNull)

\* body.decode('utf-8') raises UnicodeDecodeError
NotUtf8(body) == body.utf8 = "UnicodeDecodeError"

\* dict.get(key, default)
Get(d, key, default) == IF key \in DOMAIN d THEN d[key] ELSE default

\* Python truth value of a JSON value (`not x` is ~Truthy(x))
Truthy(j) ==
    CASE j.t = "null" -> FALSE
      [] j.t = "str"  -> j.v # << >>
      [] j.t = "int"  -> j.v # 0
      [] j.t = "list" -> j.v # << >>
      [] OTHER        -> DOMAIN j.v # {}

\* x[:n] on a field value raises TypeError unless x is a string or a list
Sliceable(j) == j.t \in {"str", "list"}

\* x[:n] of a string or a list
slice(j, n) == [j EXCEPT !.v = Prefix(j.v, n)]

\* str(n) of an integer
RECURSIVE IntStr(_)
IntStr(n) ==
    IF n < 0 THEN <<"-">> \o IntStr(0 - n)
    ELSE IF n < 10 THEN <<AsciiDigits[n + 1]>>
    ELSE IntStr(n \div 10) \o <<AsciiDigits[(n % 10) + 1]>>

\* repr() of a character between the quotes: the backslash and the
\* characters str.isprintable() is false of are escaped
ReprEscapes ==
    ("U+0000" :> <<"\\", "x", "0", "0">>)
    @@ ("U+0001" :> <<"\\", "x", "0", "1">>)
    @@ ("U+0002" :> <<"\\", "x", "0", "2">>)
    @@ ("U+0003" :> <<"\\", "x", "0", "3">>)
    @@ ("U+0004" :> <<"\\", "x", "0", "4">>)
    @@ ("U+0005" :> <<"\\", "x", "0", "5">>)
    @@ ("U+0006" :> <<"\\", "x", "0", "6">>)
    @@ ("U+0007" :> <<"\\", "x", "0", "7">>)
    @@ ("U+0008" :> <<"\\", "x", "0", "8">>)
    @@ ("\t" :> <<"\\", "t">>)
    @@ ("\n" :> <<"\\", "n">>)
    @@ ("U+000B" :> <<"\\", "x", "0", "b">>)
    @@ ("\f" :> <<"\\", "x", "0", "c">>)
    @@ ("\r" :> <<"\\", "r">>)
    @@ ("U+000E" :> <<"\\", "x", "0", "e">>)
    @@ ("U+000F" :> <<"\\", "x", "0", "f">>)
    @@ ("U+0010" :> <<"\\", "x", "1", "0">>)
    @@ ("U+0011" :> <<"\\", "x", "1", "1">>)
    @@ ("U+0012" :> <<"\\", "x", "1", "2">>)
    @@ ("U+0013" :> <<"\\", "x", "1", "3">>)
    @@ ("U+0014" :> <<"\\", "x", "1", "4">>)
    @@ ("U+0015" :> <<"\\", "x", "1", "5">>)
    @@ ("U+0016" :> <<"\\", "x", "1", "6">>)
    @@ ("U+0017" :> <<"\\", "x", "1", "7">>)
    @@ ("U+0018" :> <<"\\", "x", "1", "8">>)
    @@ ("U+0019" :> <<"\\", "x", "1", "9">>)
    @@ ("U+001A" :> <<"\\", "x", "1", "a">>)
    @@ ("U+001B" :> <<"\\", "x", "1", "b">>)
    @@ ("U+001C" :> <<"\\", "x", "1", "c">>)
    @@ ("U+001D" :> <<"\\", "x", "1", "d">>)
    @@ ("U+001E" :> <<"\\", "x", "1", "e">>)
    @@ ("U+001F" :> <<"\\", "x", "1", "f">>)
    @@ ("\\" :> <<"\\", "\\">>)
    @@ ("U+007F" :> <<"\\", "x", "7", "f">>)
    @@ ("U+0085" :> <<"\\", "x", "8", "5">>)
    @@ ("U+00A0" :> <<"\\", "x", "a", "0">>)
    @@ ("U+1680" :> <<"\\", "u", "1", "6", "8", "0">>)
    @@ ("U+2000" :> <<"\\", "u", "2", "0", "0", "0">>)
    @@ ("U+2001" :> <<"\\", "u", "2", "0", "0", "1">>)
    @@ ("U+2002" :> <<"\\", "u", "2", "0", "0", "2">>)
    @@ ("U+2003" :> <<"\\", "u", "2", "0", "0", "3">>)
    @@ ("U+2004" :> <<"\\", "u", "2", "0", "0", "4">>)
    @@ ("U+2005" :> <<"\\", "u", "2", "0", "0", "5">>)
    @@ ("U+2006" :> <<"\\", "u", "2", "0", "0", "6">>)
    @@ ("U+2007" :> <<"\\", "u", "2", "0", "0", "7">>)
    @@ ("U+2008" :> <<"\\", "u", "2", "0", "0", "8">>)
    @@ ("U+2009" :> <<"\\", "u", "2", "0", "0", "9">>)
    @@ ("U+200A" :> <<"\\", "u", "2", "0", "0", "a">>)
    @@ ("U+200B" :> <<"\\", "u", "2", "0", "0", "b">>)
    @@ ("U+2028" :> <<"\\", "u", "2", "0", "2", "8">>)
    @@ ("U+2029" :> <<"\\", "u", "2", "0", "2", "9">>)
    @@ ("U+202F" :> <<"\\", "u", "2", "0", "2", "f">>)
    @@ ("U+205F" :> <<"\\", "u", "2", "0", "5", "f">>)
    @@ ("U+3000" :> <<"\\", "u", "3", "0", "0", "0">>)
    @@ ("U+FEFF" :> <<"\\", "u", "f", "e", "f", "f">>)

\* repr() of a string: in double quotes when it holds a single quote and no
\* double quote, else in single quotes, with the single quotes escaped
repr_str(chars) ==
    LET quote == IF (\E i \in 1..Len(chars) : chars[i] = "'")
                    /\ ~(\E i \in 1..Len(chars) : chars[i] = "\"")
                 THEN "\"" ELSE "'"
    IN  <<quote>>
        \o Flatten([i \in 1..Len(chars) |->
              CASE chars[i] = quote -> <<"\\", quote>>
                [] chars[i] \in DOMAIN ReprEscapes -> ReprEscapes[chars[i]]
                [] chars[i] \in Alphabet -> <<chars[i]>>])
        \o <<quote>>

\* repr() of a JSON value that is a string, an integer, null or a list of
\* such values (a dict is written in the order of its keys, which the
\* values of the model do not keep)
RECURSIVE repr(_)
repr(j) ==
    CASE j.t = "str" -> repr_str(j.v)
      [] j.t = "int" -> IntStr(j.v)
      [] j.t = "null" -> <<"N","o","n","e">>
      [] j.t = "list" ->
            <<"[">> \o Flatten([k \in 1..Len(j.v) |->
                          IF k = 1 THEN repr(j.v[k])
                          ELSE <<",", " ">> \o repr(j.v[k])]) \o <<"]">>

\* f"{x}": a string as it is, any other value as its repr()
str(j) == IF j.t = "str" THEN j.v ELSE repr(j)

(***************************************************************************)
(* Sentiment scores: rationals [num, den] with den > 0                     *)
(***************************************************************************)
\* A score is a Python float. Rat(n, d) stands for the double nearest to
\* n/d; the scores the model compares are the same rational or lie further
\* apart than the doubles round, so they compare as the rationals do
Rat(n, d) == [num |-> n, den |-> d]

\* a <= b, by the whole parts and then the fractions: no product is taken,
\* the numerators of float32 values times a denominator pass 32 bits
RECURSIVE RatLe(_, _)
RatLe(a, b) ==
    IF a.num \div a.den # b.num \div b.den
    THEN a.num \div a.den < b.num \div b.den
    ELSE IF a.num % a.den = 0 THEN TRUE
    ELSE IF b.num % b.den = 0 THEN FALSE
    ELSE RatLe(Rat(b.den, b.num % b.den), Rat(a.den, a.num % a.den))
RatGe(a, b) == RatLe(b, a)
RatMin(a, b) == IF RatLe(a, b) THEN a ELSE b
RatMax(a, b) == IF RatLe(a, b) THEN b ELSE a

\* the float32 nearest to k hundredths, 0 <= k <= 100, in units of 2^-30:
\* 24 significant bits, rounded to nearest, ties to even. It is what numpy
\* holds of the probabilities torch computes in single precision
float32(k) ==
    IF k = 0 THEN 0
    ELSE LET s == CHOOSE n \in 0..7 :
                      k * 2^n >= 100 /\ (n = 0 \/ k * 2^(n - 1) < 100)
             scaled == k * 2^(23 + s)
             down == scaled \div 100
             m == IF (scaled % 100 > 50) \/ (scaled % 100 = 50 /\ down % 2 = 1)
                  THEN down + 1 ELSE down
         IN  m * 2^(7 - s)

\* HuggingFaceFinancialSentiment.analyze_sentiment: the class probabilities
\* (given in hundredths, held as float32 and widened by float()) weighted
\* +1 / 0 / -1. The products and the sum are exact in double precision
analyze_sentiment(probs) ==
    Rat(float32(probs.positive) - float32(probs.negative), 2^30)

\* Outcomes of one call of the primary oracle: it raises, returns None, or
\* returns the score of some class probabilities
ClassProbs ==
    { [positive |-> 100, negative |-> 0], [positive |-> 30, negative |-> 0],
      [positive |-> 29, negative |-> 0], [positive |-> 0, negative |-> 70] }
PrimaryOutcomes ==
    { [kind |-> "raise", probs |-> [positive |-> 0, negative |-> 0]],
      [kind |-> "none",  probs |-> [positive |-> 0, negative |-> 0]] }
    \cup { [kind |-> "score", probs |-> p] : p \in ClassProbs }

\* Which rabbitmq.publish of one _process_news_article call raises: none (0)
\* or the second
PublishFailures == {0, 2}

(***************************************************************************)
(* Sentiment processor                                                     *)
(***************************************************************************)
\* SentimentProcessor.TRADING_PAIRS, in dict order
TRADING_PAIRS ==
    << [pair |-> "BTC/USDT",
        keywords |-> << <<"b","i","t","c","o","i","n">>, <<"b","t","c">> >>],
       [pair |-> "ETH/USDT",
        keywords |-> << <<"e","t","h","e","r","e","u","m">>, <<"e","t","h">>,
                        <<"e","t","h","e","r">> >>],
       [pair |-> "BNB/USDT",
        keywords |-> << <<"b","i","n","a","n","c","e">>, <<"b","n","b">>,
                        <<"b","i","n","a","n","c","e"," ","c","o","i","n">> >>] >>

general_keywords ==
    << <<"c","r","y","p","t","o">>,
       <<"c","r","y","p","t","o","c","u","r","r","e","n","c","y">>,
       <<"b","l","o","c","k","c","h","a","i","n">>,
       <<"m","a","r","k","e","t">> >>

\* SentimentProcessor.SENTIMENT_THRESHOLDS
THRESHOLD_very_bullish == Rat(7, 10)
THRESHOLD_bullish == Rat(3, 10)
THRESHOLD_bearish == Rat(-3, 10)
THRESHOLD_very_bearish == Rat(-7, 10)

\* regex \w on a str pattern: the underscore and every character
\* str.isalnum() is true of
WordChars ==
    AsciiLower \cup AsciiUpper \cup AsciiDigitSet \cup {"_"} \cup
    {"U+00B2", "U+00B3", "U+00B9", "U+00C4", "U+00C9", "U+00DF", "U+00E4",
     "U+00E9", "U+0130", "U+0131", "U+017F", "U+01C4", "U+01C5", "U+01C6",
     "U+03A3", "U+03A9", "U+03C2", "U+03C3", "U+03C9", "U+0660", "U+0661",
     "U+0662", "U+0663", "U+0664", "U+0665", "U+0666", "U+0667", "U+0668",
     "U+0669", "U+0966", "U+0967", "U+0968", "U+0969", "U+096A", "U+096B",
     "U+096C", "U+096D", "U+096E", "U+096F", "U+1E9E", "U+2083", "U+2126",
     "U+212A", "U+2460", "U+FB01", "U+FF10", "U+FF11", "U+FF12", "U+FF13",
     "U+FF14", "U+FF15", "U+FF16", "U+FF17", "U+FF18", "U+FF19", "U+FF21",
     "U+FF41"}

\* regex \b at the gap after position pos (0..Len(text))
WordBoundary(text, pos) ==
    LET left == pos >= 1 /\ In(text[pos], WordChars)
        right == pos < Len(text) /\ In(text[pos + 1], WordChars)
    IN  left # right

\* mutant: the keyword is searched as a substring
SubstringSearch(keyword, text) == Contains(text, keyword)

\* re.search(r"\b" + re.escape(keyword) + r"\b", text)
WholeWordSearch(keyword, text) ==
    \E i \in 1..(Len(text) - Len(keyword) + 1) :
        /\ SubSeq(text, i, i + Len(keyword) - 1) = keyword
        /\ WordBoundary(text, i - 1)
        /\ WordBoundary(text, i + Len(keyword) - 1)

\* _match_article_to_pairs; title and content are the texts f"{title}" and
\* f"{content}" give
_match_article_to_pairs(trading_pairs, title, content) ==
    LET text == Lower(title \o <<" ">> \o content)
        hit(k) == \E n \in 1..Len(trading_pairs[k].keywords) :
                      WholeWordSearch(trading_pairs[k].keywords[n], text)
        RECURSIVE Matched(_)
        Matched(k) == IF k > Len(trading_pairs) THEN << >>
                      ELSE IF hit(k) THEN <<trading_pairs[k].pair>> \o Matched(k + 1)
                      ELSE Matched(k + 1)
        matched_pairs == Matched(1)
    IN  IF matched_pairs # << >> THEN matched_pairs
        ELSE IF \E g \in 1..Len(general_keywords) : Contains(text, general_keywords[g])
             THEN [k \in 1..Len(trading_pairs) |-> trading_pairs[k].pair]
             ELSE << >>

\* mutant: the bullish bucket is tested before the very bullish one
_classify_sentiment_bullish_first(score) ==
    IF RatGe(score, THRESHOLD_bullish) THEN "bullish"
    ELSE IF RatGe(score, THRESHOLD_very_bullish) THEN "very_bullish"
    ELSE IF RatLe(score, THRESHOLD_very_bearish) THEN "very_bearish"
    ELSE IF RatLe(score, THRESHOLD_bearish) THEN "bearish"
    ELSE "neutral"

\* _classify_sentiment
_classify_sentiment(score) ==
    IF RatGe(score, THRESHOLD_very_bullish) THEN "very_bullish"
    ELSE IF RatGe(score, THRESHOLD_bullish) THEN "bullish"
    ELSE IF RatLe(score, THRESHOLD_very_bearish) THEN "very_bearish"
    ELSE IF RatLe(score, THRESHOLD_bearish) THEN "bearish"
    ELSE "neutral"

\* _fallback_sentiment_analysis: the two vocabularies
bullish ==
  << <<"s","u","r","g","e">>,
     <<"r","a","l","l","y">>,
     <<"g","a","i","n">>,
     <<"i","n","c","r","e","a","s","e">>,
     <<"r","i","s","e">>,
     <<"b","u","l","l","i","s","h">>,
     <<"a","d","o","p","t","i","o","n">>,
     <<"b","r","e","a","k","o","u","t">>,
     <<"h","i","g","h">>,
     <<"r","e","c","o","r","d">>,
     <<"i","n","s","t","i","t","u","t","i","o","n","a","l">>,
     <<"a","p","p","r","o","v","a","l">>,
     <<"u","p","g","r","a","d","e">> >>

bearish ==
  << <<"c","r","a","s","h">>,
     <<"d","r","o","p">>,
     <<"f","a","l","l">>,
     <<"d","e","c","l","i","n","e">>,
     <<"b","e","a","r","i","s","h">>,
     <<"s","e","l","l","-","o","f","f">>,
     <<"p","l","u","n","g","e">>,
     <<"l","o","s","s">>,
     <<"f","r","a","u","d">>,
     <<"h","a","c","k">>,
     <<"r","e","g","u","l","a","t","i","o","n">>,
     <<"b","a","n">>,
     <<"c","o","n","c","e","r","n">> >>

\* sum(1 for word in words if word in text)
CountPresent(words, text) ==
    Cardinality({ k \in 1..Len(words) : Contains(text, words[k]) })

\* _fallback_sentiment_analysis
_fallback_sentiment_analysis(text) ==
    LET text_lower == Lower(text)
        bullish_count == CountPresent(bullish, text_lower)
        bearish_count == CountPresent(bearish, text_lower)
    IN  IF bullish_count = 0 /\ bearish_count = 0 THEN Rat(0, 1)
        ELSE RatMax(Rat(-1, 1),
                    RatMin(Rat(1, 1),
                           Rat(bullish_count - bearish_count,
                               bullish_count + bearish_count + 1)))

\* the part of a result of _process_news_article that says nothing was done
NoScore == Rat(0, 1)

\* _process_news_article, lines 286-322: the oracle cascade. `primary` is the
\* outcome of self.analyzer.analyze_sentiment, `secondary_raises` says whether
\* _fallback_sentiment_analysis raises.
mutant_OracleCascade(text, primary, secondary_raises) ==
    IF primary.kind = "score"
    THEN [score |-> analyze_sentiment(primary.probs), model_used |-> "finbert",
          secondary_called |-> FALSE]
    ELSE IF ~secondary_raises
    THEN [score |-> _fallback_sentiment_analysis(text), model_used |-> "finbert",
          secondary_called |-> TRUE]
    ELSE [score |-> Rat(0, 1), model_used |-> "neutral_default",
          secondary_called |-> TRUE]

OracleCascade(text, primary, secondary_raises) ==
    IF primary.kind = "score"
    THEN [score |-> analyze_sentiment(primary.probs), model_used |-> "finbert",
          secondary_called |-> FALSE]
    ELSE IF ~secondary_raises
    THEN [score |-> _fallback_sentiment_analysis(text),
          model_used |-> "fallback_keywords", secondary_called |-> TRUE]
    ELSE [score |-> Rat(0, 1), model_used |-> "neutral_default",
          secondary_called |-> TRUE]

\* _process_news_article on a decoded dict. publish_fail_at = k > 0: the k-th
\* rabbitmq.publish of the loop over matched_pairs raises (0: none raises).
\* The result records what the call did; the call itself never raises: the
\* except clause of line 361 swallows every Exception.
\* Field values of the articles of the model are strings, integers, null or
\* lists; the signal's published and analyzed_at, times read from the
\* article and the clock, are left out.
_process_news_article(trading_pairs, news_data, primary, secondary_raises, publish_fail_at) ==
    LET article_id == Get(news_data, "article_id", JStr(<<"u","n","k","n","o","w","n">>))
        title == Get(news_data, "title", JStr(<< >>))
        content == Get(news_data, "content", JStr(<< >>))
        source == Get(news_data, "source", JStr(<<"u","n","k","n","o","w","n">>))
        nothing(stage) ==
            [stage |-> stage, published |-> << >>, matched |-> << >>,
             primary_called |-> FALSE, secondary_called |-> FALSE,
             model_used |-> "finbert", sentiment_score |-> NoScore]
    IN  IF ~Truthy(title) THEN nothing("no_title")
        ELSE IF ~Sliceable(title) \/ ~Sliceable(content) THEN nothing("type_error")
        ELSE
        LET text_to_analyze == str(title) \o <<".", " ">> \o str(slice(content, 500))
            oracle == OracleCascade(text_to_analyze, primary, secondary_raises)
            sentiment_label == _classify_sentiment(oracle.score)
            matched_pairs == _match_article_to_pairs(trading_pairs, str(title),
                                                     str(content))
            signal(k) ==
                [type |-> "sentiment_signal",
                 article_id |-> article_id, pair |-> matched_pairs[k],
                 source |-> source, headline |-> title,
                 sentiment_score |-> oracle.score,
                 sentiment_label |-> sentiment_label,
                 model |-> oracle.model_used,
                 fallback_used |-> (oracle.model_used # "finbert")]
            failed == publish_fail_at \in 1..Len(matched_pairs)
            sent == IF failed THEN publish_fail_at - 1 ELSE Len(matched_pairs)
        IN  [stage |-> IF matched_pairs = << >> THEN "no_pairs"
                       ELSE IF failed THEN "publish_failed" ELSE "published",
             published |-> [k \in 1..sent |-> signal(k)],
             matched |-> matched_pairs,
             primary_called |-> TRUE,
             secondary_called |-> oracle.secondary_called,
             model_used |-> oracle.model_used,
             sentiment_score |-> oracle.score]

(***************************************************************************)
(* Consumer callbacks                                                      *)
(***************************************************************************)
\* What one run of a consumer callback did: events = the basic_ack and
\* basic_nack calls in order, invoked = the wrapped function was called,
\* escaped = an exception left the callback
Outcome(events, invoked, escaped) ==
    [events |-> events, invoked |-> invoked, escaped |-> escaped]

\* create_consumer_callback.callback; process_raises: what process_func
\* raises, "no", "JSONDecodeError" or "Exception". The try block encloses
\* the call, so a JSONDecodeError of process_func is handled as one of the
\* body
create_consumer_callback(body, auto_ack, process_raises) ==
    LET ack == IF auto_ack THEN << >> ELSE <<"ack">>
        nack(requeue) == IF auto_ack THEN << >>
                         ELSE IF requeue THEN <<"nack_requeue">> ELSE <<"nack_drop">>
    IN  IF NotUtf8(body)
        THEN \* body.decode raises UnicodeDecodeError, no JSONDecodeError
             Outcome(nack(TRUE), FALSE, FALSE)
        ELSE IF body.utf8 = "JSONDecodeError"
        THEN Outcome(nack(FALSE), FALSE, FALSE)
        ELSE IF body.v.t # "dict"
        THEN \* message.get raises AttributeError
             Outcome(nack(TRUE), FALSE, FALSE)
        ELSE IF process_raises = "JSONDecodeError"
        THEN Outcome(nack(FALSE), TRUE, FALSE)
        ELSE IF process_raises = "Exception"
        THEN Outcome(nack(TRUE), TRUE, FALSE)
        ELSE Outcome(ack, TRUE, FALSE)

\* safe_message_consumer.wrapper; validates: schema(**message_dict) accepts
\* the dict; callback_raises: "no", "JSONDecodeError", "ValueError" or
\* "Exception"; error_enabled: logger.isEnabledFor(logging.ERROR), true
\* unless LOG_LEVEL is CRITICAL.
\* The `except ValueError` clause of line 293 builds extra={"message":
\* message_dict}: when json.loads raised (the UnicodeDecodeError of a body,
\* a ValueError that is no JSONDecodeError) message_dict is unbound and the
\* clause raises UnboundLocalError; otherwise logger.error raises KeyError
\* (a LogRecord has a `message` attribute) if the logger makes a record, and
\* the nack of line 295 is reached only if it makes none.
safe_message_consumer(body, validates, callback_raises, error_enabled) ==
    IF body.detected = "UnicodeDecodeError"
    THEN Outcome(<< >>, FALSE, TRUE)
    ELSE IF body.detected = "JSONDecodeError"
    THEN Outcome(<<"nack_drop">>, FALSE, FALSE)
    ELSE IF body.v.t # "dict"
    THEN \* schema(**message_dict) raises TypeError
         Outcome(<<"nack_requeue">>, FALSE, FALSE)
    ELSE IF ~validates
    THEN IF error_enabled THEN Outcome(<< >>, FALSE, TRUE)
         ELSE Outcome(<<"nack_drop">>, FALSE, FALSE)
    ELSE IF callback_raises = "JSONDecodeError"
    THEN Outcome(<<"nack_drop">>, TRUE, FALSE)
    ELSE IF callback_raises = "ValueError"
    THEN IF error_enabled THEN Outcome(<< >>, TRUE, TRUE)
         ELSE Outcome(<<"nack_drop">>, TRUE, FALSE)
    ELSE IF callback_raises = "Exception"
    THEN Outcome(<<"nack_requeue">>, TRUE, FALSE)
    ELSE Outcome(<<"ack">>, TRUE, FALSE)

(***************************************************************************)
(* Sentiment processor: consuming raw_news_data                            *)
(***************************************************************************)
\* Bodies that arrive on raw_news_data
Article(article_id, title, content, link) ==
    JObj([f \in {"article_id", "title", "content", "link", "source"} |->
            CASE f = "article_id" -> article_id
              [] f = "title" -> title
              [] f = "content" -> content
              [] f = "link" -> JStr(link)
              [] OTHER -> JStr(<<"c","o","i","n","d","e","s","k">>)])

NewsBodies ==
    { BadUtf8, BadJson, JsonBody(JList(<< >>)), JsonBody(JNull),
      \* "btc" follows a letter outside ASCII: no word of its own
      JsonBody(Article(JStr(<<"a","7">>),
                       JStr(<<"U+00E9","b","t","c">>),
                       JStr(<<"c","r","y","p","t","o">>),
                       <<"h","t","t","p","s",":","/","/","c","o","i","n","d","e","s","k",".","c","o","m","/","a">>)),
      \* a title that is a list
      JsonBody(Article(JStr(<<"a","8">>),
                       JList(<<JStr(<<"b","t","c">>)>>),
                       JStr(<<"n","e","w","s">>),
                       <<"h","t","t","p","s",":","/","/","c","o","i","n","d","e","s","k",".","c","o","m","/","a">>)),
      \* matches BTC/USDT and ETH/USDT; the link is not of the source's domain
      JsonBody(Article(JStr(<<"a","1">>),
                       JStr(<<"B","T","C"," ","r","a","l","l","y"," ","g","a","i","n">>),
                       JStr(<<"e","t","h"," ","s","u","r","g","e">>),
                       <<"h","t","t","p","s",":","/","/","e","v","i","l",".","c","o","m","/","x">>)),
      \* general crypto news
      JsonBody(Article(JStr(<<"a","2">>),
                       JStr(<<"c","r","y","p","t","o"," ","b","a","n">>),
                       JStr(<<"n","e","w","s">>),
                       <<"h","t","t","p","s",":","/","/","c","o","i","n","d","e","s","k",".","c","o","m","/","a">>)),
      \* "eth" occurs, but not as a word
      JsonBody(Article(JStr(<<"a","3">>),
                       JStr(<<"e","t","h","i","c","s">>),
                       JStr(<<"n","e","w","s">>),
                       <<"h","t","t","p","s",":","/","/","c","o","i","n","d","e","s","k",".","c","o","m","/","a">>)),
      \* no title, a title of the wrong type, a null content
      JsonBody(JObj([f \in {"article_id"} |-> JStr(<<"a","4">>)])),
      JsonBody(Article(JStr(<<"a","5">>), JInt(7), JStr(<<"n","e","w","s">>),
                       <<"h","t","t","p","s",":","/","/","c","o","i","n","d","e","s","k",".","c","o","m","/","a">>)),
      JsonBody(Article(JStr(<<"a","6">>), JStr(<<"b","t","c">>), JNull,
                       <<"h","t","t","p","s",":","/","/","c","o","i","n","d","e","s","k",".","c","o","m","/","a">>)) }

\* _process_news_article on every article of the model with every outcome of
\* its oracles and publishes, computed once
ArticleRuns ==
    { [news_data |-> b.v.v, primary |-> primary,
       secondary_raises |-> secondary_raises, publish_fail_at |-> publish_fail_at,
       result |-> _process_news_article(TRADING_PAIRS, b.v.v, primary,
                                        secondary_raises, publish_fail_at)] :
        b \in { x \in NewsBodies : x.utf8 = "value" /\ x.v.t = "dict" },
        primary \in PrimaryOutcomes, secondary_raises \in BOOLEAN,
        publish_fail_at \in PublishFailures }

\* a producer publishes a body to raw_news_data
EnqueueNews(body) ==
    /\ news_sent < MaxNews
    /\ news_sent' = news_sent + 1
    /\ news_ready' = Append(news_ready,
                            [id |-> news_sent + 1, body |-> body, redelivered |-> FALSE])
    /\ UNCHANGED <<news_unacked, news_settled, sentiment_signals_queue, last_delivery>>
    /\ UNCHANGED <<pollerVars, streamerVars, consumerVars, strategyVars, cacherVars, fnVars, clientVars>>

\* the broker hands the next ready message to the consumer (prefetch_count=1:
\* at most one unacknowledged message)
DeliverNews ==
    /\ news_unacked = << >>
    /\ news_ready # << >>
    /\ news_unacked' = <<Head(news_ready)>>
    /\ news_ready' = Tail(news_ready)
    /\ UNCHANGED <<news_settled, news_sent, sentiment_signals_queue, last_delivery>>
    /\ UNCHANGED <<pollerVars, streamerVars, consumerVars, strategyVars, cacherVars, fnVars, clientVars>>

\* SentimentProcessor.run: the callback built by create_consumer_callback
\* around _process_news_article handles the unacknowledged message
HandleNews(primary, secondary_raises, publish_fail_at) ==
    /\ news_unacked # << >>
    /\ LET msg == news_unacked[1]
           out == create_consumer_callback(msg.body, FALSE, "no")
           res == IF out.invoked
                  THEN (CHOOSE r \in ArticleRuns :
                           /\ r.news_data = msg.body.v.v
                           /\ r.primary = primary
                           /\ r.secondary_raises = secondary_raises
                           /\ r.publish_fail_at = publish_fail_at).result
                  ELSE [stage |-> "not_called", published |-> << >>, matched |-> << >>,
                        primary_called |-> FALSE, secondary_called |-> FALSE,
                        model_used |-> "finbert", sentiment_score |-> NoScore]
       IN  /\ sentiment_signals_queue' = sentiment_signals_queue \o res.published
           /\ last_delivery' = << [msg |-> msg, events |-> out.events,
                                   primary_kind |-> IF res.primary_called
                                                    THEN primary.kind ELSE "not_called",
                                   secondary_raised |-> res.secondary_called
                                                        /\ secondary_raises,
                                   result |-> res] >>
           /\ news_unacked' = << >>
           /\ IF out.events = <<"nack_requeue">>
              THEN \* the broker puts a requeued message back at the head
                   /\ news_ready' = <<[msg EXCEPT !.redelivered = TRUE]>> \o news_ready
                   /\ UNCHANGED news_settled
              ELSE /\ news_settled' = news_settled \cup {msg.id}
                   /\ UNCHANGED news_ready
    /\ UNCHANGED news_sent
    /\ UNCHANGED <<pollerVars, streamerVars, consumerVars, strategyVars, cacherVars, fnVars, clientVars>>

ProcessorInit ==
    /\ news_ready = << >>
    /\ news_unacked = << >>
    /\ news_settled = {}
    /\ news_sent = 0
    /\ sentiment_signals_queue = << >>
    /\ last_delivery = << >>

HandleNewsAny ==
    \E primary \in PrimaryOutcomes, secondary_raises \in BOOLEAN,
       publish_fail_at \in PublishFailures :
          HandleNews(primary, secondary_raises, publish_fail_at)

ProcessorNext ==
    \/ \E body \in NewsBodies : EnqueueNews(body)
    \/ DeliverNews
    \/ HandleNewsAny

(***************************************************************************)
(* Consumer callbacks on arbitrary deliveries                              *)
(***************************************************************************)
ConsumerBodies ==
    { BadUtf8, BadJson, JsonBody(JList(<< >>)),
      JsonBody(JObj([f \in {"type"} |-> JStr(<<"x">>)])),
      Utf16BadJson, Utf16Body(JList(<< >>)),
      Utf16Body(JObj([f \in {"type"} |-> JStr(<<"x">>)])),
      DetectedBody(JObj([f \in {"type"} |-> JStr(<<"x">>)])), TruncatedUtf16 }

\* a delivery handled by a callback built with create_consumer_callback
HandleWithCallback(body, auto_ack, process_raises) ==
    /\ Cardinality(consumer_log) < MaxDeliveries
    /\ consumer_log' = consumer_log \cup
          { [wrapper |-> "create_consumer_callback", body |-> body,
             auto_ack |-> auto_ack, validates |-> TRUE,
             callback_raises |-> process_raises, error_enabled |-> TRUE,
             outcome |-> create_consumer_callback(body, auto_ack, process_raises)] }
    /\ UNCHANGED <<pollerVars, streamerVars, procVars, strategyVars, cacherVars, fnVars, clientVars>>

\* a delivery handled by a callback built with safe_message_consumer
HandleWithSafeConsumer(body, validates, callback_raises, error_enabled) ==
    /\ Cardinality(consumer_log) < MaxDeliveries
    /\ consumer_log' = consumer_log \cup
          { [wrapper |-> "safe_message_consumer", body |-> body,
             auto_ack |-> FALSE, validates |-> validates,
             callback_raises |-> callback_raises, error_enabled |-> error_enabled,
             outcome |-> safe_message_consumer(body, validates, callback_raises,
                                               error_enabled)] }
    /\ UNCHANGED <<pollerVars, streamerVars, procVars, strategyVars, cacherVars, fnVars, clientVars>>

ConsumerInit == consumer_log = {}

ConsumerNext ==
    \/ \E body \in ConsumerBodies, auto_ack \in BOOLEAN,
          process_raises \in {"no", "JSONDecodeError", "Exception"} :
          HandleWithCallback(body, auto_ack, process_raises)
    \/ \E body \in ConsumerBodies, validates \in BOOLEAN,
          callback_raises \in {"no", "JSONDecodeError", "ValueError", "Exception"},
          error_enabled \in BOOLEAN :
          HandleWithSafeConsumer(body, validates, callback_raises, error_enabled)

(***************************************************************************)
(* LLMSentimentStrategy: sentiment data and the join with candles          *)
(***************************************************************************)
\* Time is counted in hours. A timestamp cell of the CSV file holds an hour,
\* is empty, or holds text that is no date.
Hours == 0..MaxHour
SignalHours == {0, 1, MaxHour}
TsCell(kind, hour) == [kind |-> kind, hour |-> hour]
TimestampCells ==
    { TsCell("ok", h) : h \in SignalHours }
        \cup { TsCell("missing", 0), TsCell("malformed", 0) }
CsvScores == { Rat(4, 5), Rat(-2, 5) }

\* the rows of a file data/sentiment_signals.csv with the columns pair,
\* timestamp and sentiment_score
CsvRows ==
    { [pair |-> p, timestamp |-> c, sentiment_score |-> s] :
          p \in {"BTC/USDT", "ETH/USDT"}, c \in TimestampCells, s \in CsvScores }

\* float('nan'), which read_csv makes of an empty cell; and a cell whose
\* text is neither a number nor one of the spellings read_csv takes for an
\* empty cell
float_nan == [num |-> 0, den |-> 0]
NotANumber == [text |-> <<"h", "i", "g", "h">>]

\* the cells of a smoothed_sentiment column, the column that
\* SignalProcessor.smooth_signal_noise adds and export_signals_csv writes
\* with the others: a number (1/5 is the 'ema' of a score of -2/5 that
\* follows one of 4/5), an empty cell, or text
SmoothedCells == { Rat(1, 5), float_nan, NotANumber }

\* the rows of a file that has the smoothed_sentiment column as well
SmoothedRows ==
    { [pair |-> "BTC/USDT", timestamp |-> TsCell("ok", h),
       sentiment_score |-> Rat(-2, 5), smoothed_sentiment |-> c] :
          h \in {0, MaxHour}, c \in SmoothedCells }
RECURSIVE SeqsUpTo(_, _)
SeqsUpTo(S, n) ==
    IF n = 0 THEN { << >> }
    ELSE LET shorter == SeqsUpTo(S, n - 1)
         IN  shorter \cup { Append(q, x) : q \in { r \in shorter : Len(r) = n - 1 }, x \in S }
CsvFiles == SeqsUpTo(CsvRows, MaxRows) \cup SeqsUpTo(SmoothedRows, MaxRows)

\* pandas orders NaT after every timestamp
TsBefore(a, b) ==
    /\ a.kind = "ok"
    /\ b.kind # "ok" \/ a.hour < b.hour

\* DataFrame.sort_values('timestamp') on a short frame: rows with equal
\* timestamps keep their order
RECURSIVE sort_values(_)
sort_values(rows) ==
    IF rows = << >> THEN << >>
    ELSE LET sorted == sort_values(SubSeq(rows, 1, Len(rows) - 1))
             last == rows[Len(rows)]
             keep == { i \in 1..Len(sorted) : ~TsBefore(last.timestamp, sorted[i].timestamp) }
             n == Cardinality(keep)
         IN  SubSeq(sorted, 1, n) \o <<last>> \o SubSeq(sorted, n + 1, Len(sorted))

\* self.sentiment_df is None
NoFrame == [loaded |-> FALSE, rows |-> << >>]

\* _load_sentiment_data: the value it leaves in self.sentiment_df
_load_sentiment_data(file) ==
    IF ~file.exists THEN NoFrame
    ELSE IF \E i \in 1..Len(file.rows) : file.rows[i].timestamp.kind = "malformed"
    THEN \* pd.to_datetime raises
         NoFrame
    ELSE [loaded |-> TRUE, rows |-> sort_values(file.rows)]

\* The time handed to _get_sentiment_score: row['date'] of freqtrade's
\* dataframe is a pandas Timestamp in UTC; current_time of the callbacks is
\* a datetime.datetime, which freqtrade makes timezone-aware
Timestamp(hour) == [type |-> "Timestamp", aware |-> TRUE, hour |-> hour]
datetime(aware, hour) == [type |-> "datetime", aware |-> aware, hour |-> hour]

\* float(score) at line 168: the number or nan of a numeric cell; text that
\* is no number raises ValueError
float_of_cell(score) ==
    IF "text" \in DOMAIN score THEN [raised |-> "ValueError", value |-> Rat(0, 1)]
    ELSE [raised |-> "no", value |-> score]

\* _get_sentiment_score; frame is self.sentiment_df, whose timestamps are
\* timezone-naive. Only an object with a tz attribute (a pandas Timestamp)
\* is made naive at 147-148; an aware datetime.datetime stays aware, the
\* comparison of 154 raises TypeError and the except clause returns 0.0.
\* The columns of the frame are the fields of its rows; the smoothed value
\* replaces the score when the frame has the column (165-166), and a
\* float() that raises ends in the except clause as well.
_get_sentiment_score(frame, timestamp) ==
    IF ~frame.loaded \/ frame.rows = << >> THEN Rat(0, 1)
    ELSE LET aware == timestamp.type # "Timestamp" /\ timestamp.aware
             mask == { i \in 1..Len(frame.rows) :
                          /\ frame.rows[i].timestamp.kind = "ok"
                          /\ frame.rows[i].timestamp.hour <= timestamp.hour }
         IN  IF aware THEN Rat(0, 1)
             ELSE IF mask = {} THEN Rat(0, 1)
             ELSE LET latest_sentiment ==
                          frame.rows[CHOOSE i \in mask : \A j \in mask : j <= i]
                      score == Get(latest_sentiment, "sentiment_score", Rat(0, 1))
                      smoothed == Get(latest_sentiment, "smoothed_sentiment", score)
                  IN  IF float_of_cell(smoothed).raised # "no" THEN Rat(0, 1)
                      ELSE float_of_cell(smoothed).value

\* StrategyStateMonitor.get_sentiment_status: the age in hours above which a
\* signal counts as stale
sentiment_stale_hours == 4

\* The dataframes handed to populate_indicators: consecutive hourly candles
CandleFrames ==
    { [k \in 1..(b - a + 1) |-> a + k - 1] : a \in Hours, b \in Hours }

\* the file data/sentiment_signals.csv is written, before the bot starts
WriteSentimentCsv(rows) ==
    /\ ~sentiment_csv.exists
    /\ ~bot_started
    /\ sentiment_csv' = [exists |-> TRUE, rows |-> rows]
    /\ UNCHANGED <<sentiment_df, bot_started, last_populate, last_confirm>>
    /\ UNCHANGED <<pollerVars, streamerVars, procVars, consumerVars, cacherVars, fnVars, clientVars>>

\* bot_start, and bot_loop_start when the reload interval has passed
LoadSentimentData ==
    /\ sentiment_df' = _load_sentiment_data(sentiment_csv)
    /\ bot_started' = TRUE
    /\ UNCHANGED <<sentiment_csv, last_populate, last_confirm>>
    /\ UNCHANGED <<pollerVars, streamerVars, procVars, consumerVars, cacherVars, fnVars, clientVars>>

\* populate_indicators: the sentiment column it adds to the dataframe
PopulateIndicators(dates) ==
    /\ bot_started
    /\ last_populate' =
          << [sentiment_df |-> sentiment_df,
              dataframe |-> [k \in 1..Len(dates) |->
                               [date |-> dates[k],
                                sentiment |-> _get_sentiment_score(sentiment_df,
                                                                   Timestamp(dates[k]))]]] >>
    /\ UNCHANGED <<sentiment_csv, sentiment_df, bot_started, last_confirm>>
    /\ UNCHANGED <<pollerVars, streamerVars, procVars, consumerVars, cacherVars, fnVars, clientVars>>

sentiment_buy_threshold == Rat(3, 10)

\* confirm_trade_entry(pair, ..., current_time, ...): the answer it returns;
\* `sentiment < threshold` is False of nan
confirm_trade_entry(frame, pair, current_time) ==
    LET sentiment == _get_sentiment_score(frame, current_time)
    IN  IF sentiment # float_nan /\ ~RatGe(sentiment, sentiment_buy_threshold)
        THEN FALSE ELSE TRUE

\* the bot asks for the confirmation of an entry order (freqtrade passes an
\* aware current_time; a naive one comes from a direct call)
ConfirmTradeEntry(pair, current_time) ==
    /\ bot_started
    /\ last_confirm' =
          << [sentiment_df |-> sentiment_df, pair |-> pair, current_time |-> current_time,
              confirmed |-> confirm_trade_entry(sentiment_df, pair, current_time)] >>
    /\ UNCHANGED <<sentiment_csv, sentiment_df, bot_started, last_populate>>
    /\ UNCHANGED <<pollerVars, streamerVars, procVars, consumerVars, cacherVars, fnVars, clientVars>>

StrategyInit ==
    /\ sentiment_csv = [exists |-> FALSE, rows |-> << >>]
    /\ sentiment_df = NoFrame
    /\ bot_started = FALSE
    /\ last_populate = << >>
    /\ last_confirm = << >>

StrategyNext ==
    \/ \E rows \in CsvFiles : WriteSentimentCsv(rows)
    \/ LoadSentimentData
    \/ \E dates \in CandleFrames : PopulateIndicators(dates)
    \/ \E pair \in {"BTC/USDT", "ETH/USDT"}, aware \in BOOLEAN, hour \in Hours :
          ConfirmTradeEntry(pair, datetime(aware, hour))

(***************************************************************************)
(* Signal cacher and the Redis client                                      *)
(***************************************************************************)
\* the public methods of RedisClient
RedisClientMethods ==
    {"set_json", "get_json", "hset_json", "hgetall_json", "hget", "lpush",
     "lrange", "expire", "delete", "exists", "keys", "flushdb", "close",
     "ensure_connection"}

\* SignalCacher.__init__: self.cache_ttl = cache_ttl or
\* int(os.getenv("SIGNAL_CACHE_TTL", 0)); the argument and the variable are
\* << >> (None, unset) or <<n>>
cache_ttl(cache_ttl_arg, SIGNAL_CACHE_TTL) ==
    IF cache_ttl_arg # << >> /\ cache_ttl_arg[1] # 0 THEN cache_ttl_arg[1]
    ELSE IF SIGNAL_CACHE_TTL = << >> THEN 0
    ELSE SIGNAL_CACHE_TTL[1]

\* the TTL arguments and SIGNAL_CACHE_TTL values a cacher is constructed with
TtlChoices == {<< >>, <<0>>, <<MaxTtl>>, <<-1>>}

\* str(value): the text of a value
Str(value) == [str_of |-> value]

\* field values of a signal: a number, null, or a string
Num(r) == [t |-> "num", v |-> r]
NoNum == [t |-> "null", v |-> Rat(0, 1)]
TextNum == [t |-> "str", v |-> Rat(0, 1)]

\* the analyzed_at of a signal: the text of a time, or the key is absent
At(hour) == [t |-> "str", v |-> hour]
NoAt == [t |-> "missing", v |-> 0]

Signal(pair, sentiment_score, sentiment_label, analyzed_at) ==
    [pair |-> pair, sentiment_score |-> sentiment_score,
     sentiment_label |-> sentiment_label,
     headline |-> <<"B","T","C"," ","u","p">>, source |-> "coindesk",
     analyzed_at |-> analyzed_at, article_id |-> "a1"]

\* Decoded sentiment signals that arrive at the cacher ("" : no pair)
CacherSignals ==
    { Signal("BTC/USDT", Num(Rat(4, 5)), "very_bullish", At(0)),
      Signal("BTC/USDT", Num(Rat(-2, 5)), "bearish", At(1)),
      Signal("BTC/USDT", Num(Rat(4, 5)), "very_bullish", NoAt),
      Signal("btc", Num(Rat(3, 2)), "very_bullish", At(0)),
      Signal("ETH/USDT", TextNum, "bullish", At(0)),
      Signal("", Num(Rat(4, 5)), "very_bullish", At(0)),
      Signal("ETH/USDT", NoNum, "neutral", At(0)) }

\* RedisClient.hset_json on the store: [hash, fields_set]; ok = FALSE: the
\* Redis command failed, which hset_json answers with 0
hset_json(hashes, name, mapping, ok) ==
    IF ~ok THEN [hash |-> hashes, fields_set |-> 0]
    ELSE LET old == IF name \in DOMAIN hashes THEN hashes[name] ELSE << >>
             new == [f \in DOMAIN old \cup DOMAIN mapping |->
                        IF f \in DOMAIN mapping THEN Str(mapping[f]) ELSE old[f]]
         IN  [hash |-> [k \in DOMAIN hashes \cup {name} |->
                           IF k = name THEN new ELSE hashes[k]],
              fields_set |-> Cardinality(DOMAIN mapping \ DOMAIN old)]

\* SignalCacher.__init__, lines 42-59: RedisClient() connects (and raises
\* when Redis is unreachable), then self.redis.ping() is called; a method
\* RedisClient does not have raises AttributeError. Every exception ends in
\* SystemExit(1). ping_answers: what a ping of a reachable Redis returns.
BootResult(reachable, ping_answers) ==
    IF ~reachable THEN "exit_1"
    ELSE IF "ping" \notin RedisClientMethods THEN "exit_1"
    ELSE IF ~ping_answers THEN "exit_1"
    ELSE "consuming"

\* main(): SignalCacher.__init__ runs before anything is consumed; it sets
\* the TTL from its argument and the environment, then connects
CacherBoot(cache_ttl_arg, SIGNAL_CACHE_TTL, reachable, ping_answers) ==
    /\ cacher_boot = << >>
    /\ cacher_stats.signals_processed = 0
    /\ cacher_ttl' = cache_ttl(cache_ttl_arg, SIGNAL_CACHE_TTL)
    /\ cacher_boot' = << [cache_ttl_arg |-> cache_ttl_arg,
                          SIGNAL_CACHE_TTL |-> SIGNAL_CACHE_TTL,
                          reachable |-> reachable, ping_answers |-> ping_answers,
                          result |-> BootResult(reachable, ping_answers)] >>
    /\ UNCHANGED <<cacher_stats, sig_published, sig_ready>>
    /\ UNCHANGED <<pollerVars, streamerVars, procVars, consumerVars, strategyVars, fnVars, clientVars>>

\* a signal is published to sentiment_signals_queue, where it stays ready
\* until a consumer takes it
PublishSignal(signal) ==
    /\ Len(sig_published) < MaxSignals
    /\ sig_published' = Append(sig_published, signal)
    /\ sig_ready' = Append(sig_ready, Len(sig_published) + 1)
    /\ UNCHANGED <<cacher_ttl, cacher_stats, cacher_boot>>
    /\ UNCHANGED <<pollerVars, streamerVars, procVars, consumerVars, strategyVars, fnVars, clientVars>>

\* main() has not run yet: no SignalCacher is constructed, nothing is
\* published; main() passes cache_ttl=0 and SIGNAL_CACHE_TTL is not set
CacherInit ==
    /\ cacher_ttl = cache_ttl(<<0>>, << >>)
    /\ cacher_stats = [signals_processed |-> 0, cache_updates |-> 0, errors |-> 0]
    /\ cacher_boot = << >>
    /\ sig_published = << >>
    /\ sig_ready = << >>

CacherNext ==
    \/ \E cache_ttl_arg \in TtlChoices, SIGNAL_CACHE_TTL \in TtlChoices,
          reachable \in BOOLEAN, ping_answers \in BOOLEAN :
          CacherBoot(cache_ttl_arg, SIGNAL_CACHE_TTL, reachable, ping_answers)
    \/ \E signal \in CacherSignals : PublishSignal(signal)

(***************************************************************************)
(* Message schemas: src/services/common/message_schemas.py                 *)
(***************************************************************************)
\* no function has been called yet; a run of the model calls one
FunctionsInit ==
    /\ schema_last = << >>
    /\ label_last = << >>
    /\ pairs_last = << >>
    /\ env_last = << >>
    /\ entry_last = << >>
    /\ prune_last = << >>
    /\ merge_last = << >>
    /\ redis_last = << >>

\* ALLOWED_NEWS_DOMAINS
ALLOWED_NEWS_DOMAINS ==
    [source \in {<<"c","o","i","n","d","e","s","k">>, <<"c","o","i","n","t","e","l","e","g","r","a","p","h">>, <<"d","e","c","r","y","p","t">>, <<"b","i","t","c","o","i","n","_","m","a","g","a","z","i","n","e">>, <<"c","r","y","p","t","o","s","l","a","t","e">>} |->

        CASE source = <<"c","o","i","n","d","e","s","k">> ->
               {<<"c","o","i","n","d","e","s","k",".","c","o","m">>,
                <<"w","w","w",".","c","o","i","n","d","e","s","k",".","c","o","m">>}
          [] source = <<"c","o","i","n","t","e","l","e","g","r","a","p","h">> ->
               {<<"c","o","i","n","t","e","l","e","g","r","a","p","h",".","c","o","m">>,
                <<"w","w","w",".","c","o","i","n","t","e","l","e","g","r","a","p","h",".","c","o","m">>}
          [] source = <<"d","e","c","r","y","p","t">> ->
               {<<"d","e","c","r","y","p","t",".","c","o">>,
                <<"w","w","w",".","d","e","c","r","y","p","t",".","c","o">>}
          [] source = <<"b","i","t","c","o","i","n","_","m","a","g","a","z","i","n","e">> ->
               {<<"b","i","t","c","o","i","n","m","a","g","a","z","i","n","e",".","c","o","m">>,
                <<"w","w","w",".","b","i","t","c","o","i","n","m","a","g","a","z","i","n","e",".","c","o","m">>}
          [] source = <<"c","r","y","p","t","o","s","l","a","t","e">> ->
               {<<"c","r","y","p","t","o","s","l","a","t","e",".","c","o","m">>,
                <<"w","w","w",".","c","r","y","p","t","o","s","l","a","t","e",".","c","o","m">>}]

\* the whitelist with the list of one source emptied
EmptiedNewsDomains ==
    [source \in DOMAIN ALLOWED_NEWS_DOMAINS |->
        IF source = <<"d","e","c","r","y","p","t">> THEN {} ELSE ALLOWED_NEWS_DOMAINS[source]]

\* a positive float as mantissa (10..99) times a power of ten: m * 10^e
Price(m, e) == [m |-> m, e |-> e]
PriceLt(a, b) == a.e < b.e \/ (a.e = b.e /\ a.m < b.m)

\* PRICE_SANITY_BOUNDS
max_crypto_price == Price(10, 5)
min_crypto_price == Price(10, -7)

\* str.startswith
StartsWith(text, prefix) ==
    /\ Len(text) >= Len(prefix)
    /\ SubSeq(text, 1, Len(prefix)) = prefix

\* urllib.parse: the characters urlsplit strips from the front of a URL, the
\* characters it removes everywhere, and the characters of a scheme
C0ControlOrSpace ==
    {"U+0000", "U+0001", "U+0002", "U+0003", "U+0004", "U+0005", "U+0006",
     "U+0007", "U+0008", "\t", "\n", "U+000B", "\f", "\r", "U+000E", "U+000F",
     "U+0010", "U+0011", "U+0012", "U+0013", "U+0014", "U+0015", "U+0016",
     "U+0017", "U+0018", "U+0019", "U+001A", "U+001B", "U+001C", "U+001D",
     "U+001E", "U+001F", " "}
UnsafeUrlBytesToRemove == {"\t", "\r", "\n"}
scheme_chars == AsciiLower \cup AsciiUpper \cup AsciiDigitSet \cup {"+", "-", "."}
HexDigits == AsciiDigitSet \cup {"a","b","c","d","e","f","A","B","C","D","E","F"}

\* the characters whose NFKC form holds one of / ? # @ :
NfkcDelimiters ==
    {"U+2047", "U+2048", "U+2049", "U+2100", "U+2101", "U+2105", "U+2106",
     "U+2A74", "U+FE13", "U+FE16", "U+FE55", "U+FE56", "U+FE5F", "U+FE6B",
     "U+FF03", "U+FF0F", "U+FF1A", "U+FF1F", "U+FF20"}

\* ipaddress.IPv4Address(text) returns: four octets of one to three ASCII
\* digits, no leading zero, none above 255
IPv4Address(text) ==
    LET octets == split(text, ".")
    IN  /\ Len(octets) = 4
        /\ \A k \in 1..4 :
              LET octet == octets[k]
              IN  /\ octet # << >>
                  /\ \A i \in 1..Len(octet) : octet[i] \in AsciiDigitSet
                  /\ Len(octet) <= 3
                  /\ ~(octet # <<"0">> /\ octet[1] = "0")
                  /\ \/ Len(octet) < 3
                     \/ octet[1] = "1"
                     \/ octet[1] = "2" /\ octet[2] \in {"0","1","2","3","4"}
                     \/ octet[1] = "2" /\ octet[2] = "5"
                           /\ octet[3] \in {"0","1","2","3","4","5"}

\* the place of the first occurrence of a character in a text, 0 for none
find(text, c) ==
    LET at == {k \in 1..Len(text) : text[k] = c}
    IN  IF at = {} THEN 0 ELSE CHOOSE k \in at : \A j \in at : k <= j

\* ipaddress.IPv6Address: the hextets at the places `parsed` are one to four
\* hexadecimal digits
_parse_hextets(parts, parsed) ==
    \A i \in parsed :
        /\ \A c \in 1..Len(parts[i]) : parts[i][c] \in HexDigits
        /\ Len(parts[i]) <= 4
        /\ parts[i] # << >>

\* ipaddress.IPv6Address: the parts around a '::' at skip_index
_parse_skipped(parts, skip_index) ==
    LET hi == IF parts[1] = << >> THEN skip_index - 2 ELSE skip_index - 1
        lo == IF parts[Len(parts)] = << >> THEN Len(parts) - skip_index - 1
              ELSE Len(parts) - skip_index
    IN  /\ parts[1] = << >> => hi = 0
        /\ parts[Len(parts)] = << >> => lo = 0
        /\ 8 - (hi + lo) >= 1
        /\ _parse_hextets(parts, (1..hi) \cup ((Len(parts) - lo + 1)..Len(parts)))

\* ipaddress.IPv6Address: the parts of the address, an IPv4 suffix replaced
\* by its two hextets
_parse_parts(parts) ==
    LET skips == {i \in 2..(Len(parts) - 1) : parts[i] = << >>}
    IN  /\ Len(parts) <= 9
        /\ Cardinality(skips) <= 1
        /\ IF skips # {}
           THEN _parse_skipped(parts, CHOOSE i \in skips : TRUE)
           ELSE /\ Len(parts) = 8
                /\ parts[1] # << >>
                /\ parts[Len(parts)] # << >>
                /\ _parse_hextets(parts, 1..Len(parts))

\* ipaddress.IPv6Address: the address without its scope id, split at ':'
_ip_int_from_string(split_parts) ==
    LET last == split_parts[Len(split_parts)]
    IN  /\ Len(split_parts) >= 3
        /\ IF Contains(last, <<".">>)
           THEN /\ IPv4Address(last)
                /\ _parse_parts(SubSeq(split_parts, 1, Len(split_parts) - 1)
                                \o << <<"0">>, <<"0">> >>)
           ELSE _parse_parts(split_parts)

\* ipaddress.IPv6Address(text) returns
IPv6Address(text) ==
    LET sep == find(text, "%")
    IN  /\ ~Contains(text, <<"/">>)
        /\ IF sep = 0 THEN _ip_int_from_string(split(text, ":"))
           ELSE /\ sep < Len(text)
                /\ ~Contains(SubSeq(text, sep + 1, Len(text)), <<"%">>)
                /\ _ip_int_from_string(split(SubSeq(text, 1, sep - 1), ":"))

\* _check_bracketed_host(hostname) returns: an IPvFuture address
\* v<hex>.<text>, or an IPv6 address
_check_bracketed_host(hostname) ==
    IF hostname # << >> /\ hostname[1] = "v"
    THEN \E k \in 2..(Len(hostname) - 2) :
            /\ \A i \in 2..k : hostname[i] \in HexDigits
            /\ hostname[k + 1] = "."
    ELSE IPv6Address(hostname)

\* urlsplit: the URL without the leading control characters and spaces and
\* without tabs and line breaks
_remove_unsafe(v) ==
    LET kept == {k \in 1..Len(v) : v[k] \notin C0ControlOrSpace}
    IN  IF kept = {} THEN << >>
        ELSE SelectSeq(SubSeq(v, CHOOSE k \in kept : \A j \in kept : k <= j, Len(v)),
                       LAMBDA c : c \notin UnsafeUrlBytesToRemove)

\* urlsplit: what follows the scheme and its colon, the whole URL when it
\* starts with no scheme
_after_scheme(url) ==
    LET i == find(url, ":")
    IN  IF /\ i > 1
           /\ url[1] \in AsciiLower \cup AsciiUpper
           /\ \A k \in 1..(i - 1) : url[k] \in scheme_chars
        THEN SubSeq(url, i + 1, Len(url)) ELSE url

\* _splitnetloc: the text between a leading '//' and the first of / ? #
_splitnetloc(rest) ==
    LET delims == {k \in 3..Len(rest) : rest[k] \in {"/", "?", "#"}}
    IN  IF Len(rest) >= 2 /\ SubSeq(rest, 1, 2) = <<"/", "/">>
        THEN IF delims = {} THEN SubSeq(rest, 3, Len(rest))
             ELSE SubSeq(rest, 3, (CHOOSE k \in delims : \A j \in delims : k <= j) - 1)
        ELSE << >>

\* str.partition(sep)[2] and str.partition(sep)[0]
after_first(text, sep) ==
    IF find(text, sep) = 0 THEN << >> ELSE SubSeq(text, find(text, sep) + 1, Len(text))
before_first(text, sep) ==
    IF find(text, sep) = 0 THEN text ELSE SubSeq(text, 1, find(text, sep) - 1)

\* urlsplit: the netloc makes it raise ValueError
_invalid_netloc(found) ==
    \/ Contains(found, <<"[">>) /\ ~Contains(found, <<"]">>)
    \/ Contains(found, <<"]">>) /\ ~Contains(found, <<"[">>)
    \/ /\ Contains(found, <<"[">>) /\ Contains(found, <<"]">>)
       /\ ~_check_bracketed_host(before_first(after_first(found, "["), "]"))
    \/ \E k \in 1..Len(found) : In(found[k], NfkcDelimiters)

\* urlparse(v): the netloc of the result, or the ValueError it raises
SplitResult(found) ==
    IF _invalid_netloc(found) THEN [raised |-> "ValueError", netloc |-> << >>]
    ELSE [raised |-> "no", netloc |-> found]
urlparse(v) == SplitResult(_splitnetloc(_after_scheme(_remove_unsafe(v))))

\* urlparse(v).netloc
netloc(v) == urlparse(v).netloc

\* the `values` of a pydantic validator: the fields validated so far
WithField(values, field, value, ok) ==
    IF ok THEN [f \in DOMAIN values \cup {field} |->
                  IF f = field THEN value ELSE values[f]]
    ELSE values

\* mutant: the domain only has to contain a listed domain
validate_url_contains(v, values, allowed_news_domains) ==
    /\ (StartsWith(v, <<"h","t","t","p",":","/","/">>) \/ StartsWith(v, <<"h","t","t","p","s",":","/","/">>))
    /\ urlparse(v).raised = "no"
    /\ "source" \in DOMAIN values =>
          \E d \in allowed_news_domains[Lower(values["source"])] :
              Contains(Lower(netloc(v)), d)

\* RawNewsMessage.validate_url: TRUE when it returns, FALSE when it raises,
\* be it its own ValueError or the one of urlparse; allowed_news_domains is
\* the module's ALLOWED_NEWS_DOMAINS
validate_url(v, values, allowed_news_domains) ==
    /\ (StartsWith(v, <<"h","t","t","p",":","/","/">>) \/ StartsWith(v, <<"h","t","t","p","s",":","/","/">>))
    /\ urlparse(v).raised = "no"
    /\ "source" \in DOMAIN values =>
          LET source == Lower(values["source"])
              allowed_domains == IF source \in DOMAIN allowed_news_domains
                                 THEN allowed_news_domains[source] ELSE {}
          IN  Lower(netloc(v)) \in allowed_domains

\* RawNewsMessage.validate_source
validate_source(v) ==
    Lower(v) \in {<<"c","o","i","n","d","e","s","k">>,
                   <<"c","o","i","n","t","e","l","e","g","r","a","p","h">>,
                   <<"d","e","c","r","y","p","t">>,
                   <<"b","i","t","c","o","i","n","_","m","a","g","a","z","i","n","e">>,
                   <<"c","r","y","p","t","o","s","l","a","t","e">>}

\* RawNewsMessage(**payload): the fields are validated in the order of their
\* definition, each validator seeing the fields that passed before it. Title
\* and content are given by their lengths.
RawNewsMessage(payload, allowed_news_domains) ==
    LET v1 == WithField(<< >>, "timestamp", payload.timestamp,
                        payload.timestamp = "datetime")
        v2 == WithField(v1, "source", Lower(payload.source),
                        /\ Len(payload.source) >= 1 /\ Len(payload.source) <= 100
                        /\ validate_source(payload.source))
        v3 == WithField(v2, "title", payload.title,
                        payload.title.len >= 1 /\ payload.title.len <= 500)
        v4 == WithField(v3, "url", payload.url,
                        validate_url(payload.url, v3, allowed_news_domains))
        v5 == WithField(v4, "content", payload.content,
                        payload.content.len >= 10 /\ payload.content.len <= 50000)
    IN  [accepted |-> DOMAIN v5 = {"timestamp", "source", "title", "url", "content"},
         values |-> v5]

\* re.match of ^[A-Z]{3,5}/[A-Z]{3,5}$, the pattern of the pair fields and of
\* TRADING_PAIR_PATTERN; $ matches at the end and before a line feed that
\* ends the text
MatchesPairPattern(text) ==
    LET body == IF text # << >> /\ text[Len(text)] = "\n"
                THEN {text, SubSeq(text, 1, Len(text) - 1)} ELSE {text}
    IN  \E t \in body : \E k \in 1..Len(t) :
            /\ t[k] = "/"
            /\ k - 1 \in 3..5
            /\ Len(t) - k \in 3..5
            /\ \A i \in (1..Len(t)) \ {k} : t[i] \in AsciiUpper

\* Field(gt=min_crypto_price, lt=max_crypto_price)
PriceInBounds(v) == PriceLt(min_crypto_price, v) /\ PriceLt(v, max_crypto_price)

\* RawMarketDataMessage.validate_high: TRUE when it returns
validate_high(v, values) ==
    /\ ~("low" \in DOMAIN values /\ PriceLt(v, values["low"]))
    /\ ~("open" \in DOMAIN values /\ PriceLt(v, values["open"]))
    /\ ~("close" \in DOMAIN values /\ PriceLt(v, values["close"]))

\* RawMarketDataMessage.validate_low: TRUE when it returns
validate_low(v, values) ==
    /\ ~("open" \in DOMAIN values /\ PriceLt(values["open"], v))
    /\ ~("close" \in DOMAIN values /\ PriceLt(values["close"], v))

\* RawMarketDataMessage(**payload)
RawMarketDataMessage(payload) ==
    LET v1 == WithField(<< >>, "timestamp", payload.timestamp,
                        payload.timestamp = "datetime")
        v2 == WithField(v1, "pair", payload.pair, MatchesPairPattern(payload.pair))
        v3 == WithField(v2, "open", payload.open, PriceInBounds(payload.open))
        v4 == WithField(v3, "high", payload.high,
                        PriceInBounds(payload.high) /\ validate_high(payload.high, v3))
        v5 == WithField(v4, "low", payload.low,
                        PriceInBounds(payload.low) /\ validate_low(payload.low, v4))
        v6 == WithField(v5, "close", payload.close, PriceInBounds(payload.close))
        v7 == WithField(v6, "volume", payload.volume,
                        RatLe(Rat(0, 1), payload.volume))
    IN  [accepted |-> DOMAIN v7 = {"timestamp", "pair", "open", "high", "low",
                                    "close", "volume"},
         values |-> v7]

\* payloads handed to the schemas; a run of the model validates one payload
\* or labels one score
MarketPayloads ==
    LET prices == {min_crypto_price, Price(90, -1), Price(10, 0), Price(11, 0),
                   Price(20, 0), max_crypto_price}
    IN  [timestamp : {"datetime", "not a datetime"},
         pair : {<<"B","T","C","/","U","S","D","T">>, <<"b","t","c","/","u","s","d","t">>},
         open : prices, high : prices, low : prices, close : prices,
         volume : {Rat(-1, 1), Rat(0, 1)}]

NewsPayloads ==
    [timestamp : {"datetime"},
     source : {<<"c","o","i","n","d","e","s","k">>, <<"C","o","i","n","D","e","s","k">>, <<"d","e","c","r","y","p","t">>, <<"e","v","i","l">>, <<>>},
     title : {[len |-> n] : n \in {0, 1, 500, 501}},
     url : {<<"h","t","t","p","s",":","/","/","c","o","i","n","d","e","s","k",".","c","o","m","/","a">>,
            <<"h","t","t","p",":","/","/","w","w","w",".","c","o","i","n","d","e","s","k",".","c","o","m">>,
            <<"h","t","t","p","s",":","/","/","C","O","I","N","D","E","S","K",".","c","o","m","?","x">>,
            <<"h","t","t","p","s",":","/","/","e","v","i","l",".","c","o","m","/","x">>,
            <<"f","t","p",":","/","/","c","o","i","n","d","e","s","k",".","c","o","m","/","a">>,
            <<"H","T","T","P","S",":","/","/","c","o","i","n","d","e","s","k",".","c","o","m","/","a">>,
            <<"h","t","t","p","s",":","/","/","c","o","i","n","d","e","s","k",".","c","o","m",".","e","v","i","l",".","c","o","m","/","a">>,
            <<"h","t","t","p","s",":","/","/","e","v","i","l",".","c","o","m","/","c","o","i","n","d","e","s","k",".","c","o","m">>,
            <<"h","t","t","p","s",":","/","/","d","e","c","r","y","p","t",".","c","o","#","b">>,
            <<"c","o","i","n","d","e","s","k",".","c","o","m">>,
            <<"h","t","t","p","s",":","/","/","c","o","i","n","\n","d","e","s","k",".","c","o","m","\t","/","a">>,
            <<"h","t","t","p","s",":","/","/","[","c","o","i","n","d","e","s","k",".","c","o","m","/","a">>},
     content : {[len |-> n] : n \in {9, 10, 50000, 50001}}]

\* validate_message(payload, RawMarketDataMessage)
ValidateMarket(payload) ==
    /\ FunctionsInit
    /\ schema_last' = << [schema |-> "RawMarketDataMessage", payload |-> payload,
                          allowed_news_domains |-> ALLOWED_NEWS_DOMAINS,
                          result |-> RawMarketDataMessage(payload)] >>
    /\ UNCHANGED <<label_last, pairs_last, env_last, entry_last, prune_last, merge_last, redis_last>>
    /\ UNCHANGED <<pollerVars, streamerVars, procVars, consumerVars, strategyVars,
                   cacherVars, clientVars>>

\* validate_message(payload, RawNewsMessage)
ValidateNews(payload, allowed_news_domains) ==
    /\ FunctionsInit
    /\ schema_last' = << [schema |-> "RawNewsMessage", payload |-> payload,
                          allowed_news_domains |-> allowed_news_domains,
                          result |-> RawNewsMessage(payload, allowed_news_domains)] >>
    /\ UNCHANGED <<label_last, pairs_last, env_last, entry_last, prune_last, merge_last, redis_last>>
    /\ UNCHANGED <<pollerVars, streamerVars, procVars, consumerVars, strategyVars,
                   cacherVars, clientVars>>

(***************************************************************************)
(* Strategy monitor: src/monitoring/strategy_monitor.py                    *)
(***************************************************************************)
\* Python float(text) of a field written by hset_json with str(value)
float(field) == field.str_of

\* StrategyMonitor.get_sentiment_status on the store; self.redis is a
\* RedisClient, and a call of a method it does not have raises AttributeError
get_sentiment_status(hashes, pair) ==
    LET key == "sentiment:" \o pair
        score == float(hashes[key]["score"])
    IN  IF "hgetall" \notin RedisClientMethods
        THEN [raised |-> "AttributeError", label |-> "none"]
        ELSE IF key \notin DOMAIN hashes
        THEN [raised |-> "no", label |-> "none"]
        ELSE [raised |-> "no",
              label |-> IF RatGe(score, Rat(7, 10)) THEN "very_bullish"
                        ELSE IF RatGe(score, Rat(3, 10)) THEN "bullish"
                        ELSE IF RatLe(score, Rat(-7, 10)) THEN "very_bearish"
                        ELSE IF RatLe(score, Rat(-3, 10)) THEN "bearish"
                        ELSE "neutral"]

\* scores in hundredths over [-1, +1], and the scores of the primary oracle
LabelScores ==
    {Rat(n, 100) : n \in -100..100} \cup {analyze_sentiment(p) : p \in ClassProbs}

\* the processor labels a score, the cacher stores it, the monitor reads it
LabelScore(score) ==
    LET cached == hset_json(<< >>, "sentiment:BTC/USDT",
                            [score |-> score,
                             label |-> _classify_sentiment(score)], TRUE).hash
    IN  /\ FunctionsInit
        /\ label_last' = << [score |-> score,
                             label |-> _classify_sentiment(score),
                             cached |-> cached,
                             monitor |-> get_sentiment_status(cached, "BTC/USDT")] >>
        /\ UNCHANGED <<schema_last, pairs_last, env_last, entry_last, prune_last, merge_last, redis_last>>
        /\ UNCHANGED <<pollerVars, streamerVars, procVars, consumerVars, strategyVars,
                       cacherVars, clientVars>>

(***************************************************************************)
(* Configured trading pairs: SentimentProcessor.__init__                   *)
(***************************************************************************)
\* mutant: the entries are taken as they are
strip_nothing(text) == text

\* str.strip(): the characters str.isspace() is true of are removed from
\* both ends
strip(text) ==
    LET inked == {k \in 1..Len(text) : ~In(text[k], Whitespace)}
    IN  IF inked = {} THEN << >>
        ELSE SubSeq(text, CHOOSE i \in inked : \A j \in inked : i <= j,
                          CHOOSE i \in inked : \A j \in inked : j <= i)

\* _parse_trading_pairs: the dict it returns, in insertion order, or the
\* ValueError it raises
_parse_trading_pairs(pairs_str) ==
    LET entries == split(pairs_str, ",")
        RECURSIVE Parsed(_, _)
        Parsed(k, pairs) ==
            IF k > Len(entries) THEN pairs
            ELSE LET pair == strip(entries[k])
                     base == Lower(split(pair, "/")[1])
                 IN  IF pair = << >> THEN Parsed(k + 1, pairs)
                     ELSE IF ~MatchesPairPattern(pair) THEN Parsed(k + 1, pairs)
                     ELSE IF \E n \in 1..Len(pairs) : pairs[n].pair = pair
                     THEN Parsed(k + 1, pairs)
                     ELSE Parsed(k + 1, Append(pairs, [pair |-> pair,
                                                       keywords |-> <<base>>]))
        pairs == Parsed(1, << >>)
    IN  [raised |-> IF pairs = << >> THEN "ValueError" ELSE "no", pairs |-> pairs]

\* str.join
RECURSIVE join(_, _)
join(sep, items) ==
    IF items = << >> THEN << >>
    ELSE IF Len(items) = 1 THEN items[1]
    ELSE items[1] \o sep \o join(sep, Tail(items))

\* values of TRADING_PAIRS in the environment, as lists of entries; the
\* variable reads as the entries joined by commas, and an empty list is an
\* unset variable
PairEntryLists ==
    SeqsUpTo({<<"B","T","C","/","U","S","D","T">>,
              <<" ","E","T","H","/","U","S","D","T"," ">>,
              <<"b","t","c","/","u","s","d","t">>,
              <<"B","T","/","U","S","D","T">>,
              <<"M","A","T","I","C","/","S","H","I","B","A","X">>,
              <<>>,
              <<"B","T","C","/","U","S","D","T","/","X">>,
              <<"B","T","C","-","U","S","D","T">>,
              <<"A","B","C","/","D","E","F","\f">>,
              <<"U+00A0","S","O","L","/","U","S","D","T","\n">>,
              <<"U+200B","X","R","P","/","U","S","D","T">>},
             MaxPairEntries)

\* SentimentProcessor.__init__, lines 80-85: TRADING_PAIRS of the environment
\* is parsed when it is set; the ValueError of the parser leaves __init__
StartProcessor(entries) ==
    LET pairs_env == join(<<",">>, entries)
        parsed == _parse_trading_pairs(pairs_env)
    IN  /\ FunctionsInit
        /\ pairs_last' =
              << [entries |-> entries, pairs_env |-> pairs_env,
                  started |-> (pairs_env = << >> \/ parsed.raised = "no"),
                  trading_pairs |-> IF pairs_env = << >>
                                    THEN [k \in 1..Len(TRADING_PAIRS) |-> TRADING_PAIRS[k].pair]
                                    ELSE [k \in 1..Len(parsed.pairs) |-> parsed.pairs[k].pair]] >>
        /\ UNCHANGED <<schema_last, label_last, env_last, entry_last, prune_last, merge_last, redis_last>>
        /\ UNCHANGED <<pollerVars, streamerVars, procVars, consumerVars, strategyVars,
                       cacherVars, clientVars>>

(***************************************************************************)
(* Environment validation: services/common/config_validator.py             *)
(***************************************************************************)
\* os.getenv(name): the value, a string, or None
getenv(env, name) == IF name \in DOMAIN env THEN JStr(env[name]) ELSE JNull

\* str.upper()
Upper(text) ==
    Flatten([i \in 1..Len(text) |->
        CASE text[i] \in AsciiLower ->
                <<CHOOSE c \in AsciiUpper : UpperToLower[c] = text[i]>>
          [] text[i] \in DOMAIN UpperOutsideAscii -> UpperOutsideAscii[text[i]]
          [] text[i] \in Alphabet -> <<text[i]>>])

\* one entry of a profile: the variable's name and its specification.
\* validation names the lambda of the entry; error_msg is
\* spec.get("error_msg", "Validation failed"); optional_if is None when absent
VarSpec(var_name, default, validation, error_msg, optional_if) ==
    [var_name |-> var_name, default |-> default, validation |-> validation,
     error_msg |-> error_msg, optional_if |-> optional_if]

DRY_RUN_true == JStr(<<"D","R","Y","_","R","U","N","=","t","r","u","e">>)

CORE_REQUIRED_VARS ==
    << VarSpec(<<"R","A","B","B","I","T","M","Q","_","U","S","E","R">>, JNull,
               "len(v) > 0", "Validation failed", JNull),
       VarSpec(<<"R","A","B","B","I","T","M","Q","_","P","A","S","S">>, JNull,
               "len(v) >= 8", "Password must be at least 8 characters", JNull),
       VarSpec(<<"R","A","B","B","I","T","M","Q","_","H","O","S","T">>,
               JStr(<<"r","a","b","b","i","t","m","q">>),
               "len(v) > 0", "Validation failed", JNull),
       VarSpec(<<"R","A","B","B","I","T","M","Q","_","P","O","R","T">>,
               JStr(<<"5","6","7","2">>),
               "v.isdigit() and 1 <= int(v) <= 65535",
               "Port must be a valid number (1-65535)", JNull) >>

REDIS_VARS ==
    << VarSpec(<<"R","E","D","I","S","_","H","O","S","T">>, JStr(<<"r","e","d","i","s">>),
               "len(v) > 0", "Validation failed", JNull),
       VarSpec(<<"R","E","D","I","S","_","P","O","R","T">>, JStr(<<"6","3","7","9">>),
               "v.isdigit() and 1 <= int(v) <= 65535",
               "Port must be a valid number (1-65535)", JNull) >>

LLM_VARS ==
    << VarSpec(<<"O","L","L","A","M","A","_","H","O","S","T">>,
               JStr(<<"h","t","t","p",":","/","/","l","o","c","a","l","h","o","s","t",
                      ":","1","1","4","3","4">>),
               "v.startswith('http')", "Must be valid HTTP/HTTPS URL", JNull),
       VarSpec(<<"O","L","L","A","M","A","_","M","O","D","E","L">>,
               JStr(<<"m","i","s","t","r","a","l",":","7","b">>),
               "len(v) > 0", "Validation failed", JNull),
       VarSpec(<<"H","U","G","G","I","N","G","F","A","C","E","_","M","O","D","E","L">>,
               JStr(<<"P","r","o","s","u","s","A","I","/","f","i","n","b","e","r","t">>),
               "'/' in v", "Must be in format 'organization/model'", JNull) >>

EXCHANGE_VARS ==
    << VarSpec(<<"B","I","N","A","N","C","E","_","A","P","I","_","K","E","Y">>, JNull,
               "len(v) > 20", "API key appears invalid (too short)", DRY_RUN_true),
       VarSpec(<<"B","I","N","A","N","C","E","_","A","P","I","_","S","E","C","R","E","T">>,
               JNull,
               "len(v) > 20", "API secret appears invalid (too short)", DRY_RUN_true) >>

\* the character U+00B2, superscript two
SuperscriptTwo == "U+00B2"

\* the decimal digits of other scripts that the texts of the model use, with
\* their values: the Arabic-Indic, the Devanagari and the fullwidth digits
DecimalOutsideAscii ==
    [c \in {"U+0660", "U+0661", "U+0662", "U+0663", "U+0664", "U+0665", "U+0666",
            "U+0667", "U+0668", "U+0669"} |->
        CHOOSE d \in 0..9 : c = <<"U+0660", "U+0661", "U+0662", "U+0663", "U+0664",
                                  "U+0665", "U+0666", "U+0667", "U+0668", "U+0669">>[d + 1]]
    @@ [c \in {"U+0966", "U+0967", "U+0968", "U+0969", "U+096A", "U+096B", "U+096C",
               "U+096D", "U+096E", "U+096F"} |->
        CHOOSE d \in 0..9 : c = <<"U+0966", "U+0967", "U+0968", "U+0969", "U+096A",
                                  "U+096B", "U+096C", "U+096D", "U+096E", "U+096F">>[d + 1]]
    @@ [c \in {"U+FF10", "U+FF11", "U+FF12", "U+FF13", "U+FF14", "U+FF15", "U+FF16",
               "U+FF17", "U+FF18", "U+FF19"} |->
        CHOOSE d \in 0..9 : c = <<"U+FF10", "U+FF11", "U+FF12", "U+FF13", "U+FF14",
                                  "U+FF15", "U+FF16", "U+FF17", "U+FF18", "U+FF19">>[d + 1]]

\* digits that are no decimal digits: the superscripts one, two and three,
\* subscript three, and the circled one
OtherDigits == {"U+00B9", SuperscriptTwo, "U+00B3", "U+2083", "U+2460"}

\* str.isdigit(): true of the decimal digits of every script and of the
\* other digits, which int() refuses
isdigit(v) ==
    /\ v # << >>
    /\ \A i \in 1..Len(v) :
          In(v[i], AsciiDigitSet \cup DOMAIN DecimalOutsideAscii \cup OtherDigits)

\* sys.get_int_max_str_digits(): int() refuses longer strings
int_max_str_digits == 4300

\* the decimal digits int() reads before it meets a character that is none
leading_digits(v) ==
    LET others == {k \in 1..Len(v) : v[k] \in OtherDigits}
    IN  IF others = {} THEN Len(v)
        ELSE (CHOOSE k \in others : \A j \in others : k <= j) - 1

\* int(v) of a string isdigit() is true of: the ValueError it raises, or the
\* number as its decimal digits, most significant first, without leading
\* zeros. The digits are counted against the limit as they are read, before
\* a character that is no decimal digit is met.
int(v) ==
    LET value(c) == IF c \in AsciiDigitSet THEN (CHOOSE d \in 1..10 : AsciiDigits[d] = c) - 1
                    ELSE DecimalOutsideAscii[c]
        significant == {k \in 1..Len(v) : value(v[k]) # 0}
    IN  IF leading_digits(v) > int_max_str_digits
        THEN [raised |-> "exceeds the limit", digits |-> << >>]
        ELSE IF \E k \in 1..Len(v) : v[k] \in OtherDigits
        THEN [raised |-> "invalid literal", digits |-> << >>]
        ELSE IF significant = {} THEN [raised |-> "no", digits |-> <<0>>]
        ELSE LET first == CHOOSE k \in significant : \A j \in significant : k <= j
             IN  [raised |-> "no",
                  digits |-> [k \in 1..(Len(v) - first + 1) |-> value(v[first + k - 1])]]

\* a <= b of two numbers given by their decimal digits
DigitsLeq(a, b) ==
    \/ Len(a) < Len(b)
    \/ /\ Len(a) = Len(b)
       /\ \/ a = b
          \/ \E k \in 1..Len(a) :
                /\ a[k] < b[k]
                /\ \A j \in 1..(k - 1) : a[j] = b[j]

\* 1 <= int(v) <= 65535: "True", "False", or the ValueError of int(v)
is_port(number) ==
    IF number.raised # "no" THEN number.raised
    ELSE IF DigitsLeq(<<1>>, number.digits) /\ DigitsLeq(number.digits, <<6, 5, 5, 3, 5>>)
    THEN "True" ELSE "False"

\* validation_func(value) for the lambda named: "True", "False", or the
\* ValueError of int()
validation(lambda, v) ==
    CASE lambda = "len(v) > 0"  -> IF Len(v) > 0 THEN "True" ELSE "False"
      [] lambda = "len(v) >= 8" -> IF Len(v) >= 8 THEN "True" ELSE "False"
      [] lambda = "len(v) > 20" -> IF Len(v) > 20 THEN "True" ELSE "False"
      [] lambda = "v.startswith('http')" ->
            IF StartsWith(v, <<"h","t","t","p">>) THEN "True" ELSE "False"
      [] lambda = "'/' in v" -> IF Contains(v, <<"/">>) THEN "True" ELSE "False"
      [] OTHER -> IF ~isdigit(v) THEN "False" ELSE is_port(int(v))

\* mutant: the flag is compared as it is written
_check_condition_exact(condition, env) ==
    LET parts == split(condition, "=")
        actual_value == getenv(env, strip(parts[1]))
    IN  /\ Contains(condition, <<"=">>)
        /\ actual_value # JNull
        /\ actual_value.v = join(<<"=">>, Tail(parts))

\* _check_condition: 'VAR=value' holds of the environment
_check_condition(condition, env) ==
    LET parts == split(condition, "=")
        actual_value == getenv(env, strip(parts[1]))
    IN  /\ Contains(condition, <<"=">>)
        /\ actual_value # JNull
        /\ Lower(actual_value.v) = Lower(join(<<"=">>, Tail(parts)))

\* a text is a sequence of pieces: words of the format string (lit) and
\* strings substituted into it (chars)
Lit(s) == [lit |-> s, chars |-> << >>]
Val(c) == [lit |-> "", chars |-> c]

\* str(e) of the ValueError int(v) raises: the message of the limit names
\* the digits read, the other one shows the first 200 characters of
\* repr(v), which for a string of digits is v in single quotes
int_error(v) ==
    IF int(v).raised = "exceeds the limit"
    THEN <<Lit("Exceeds the limit (4300 digits) for integer string conversion: value has "),
           Val(IntStr(leading_digits(v))),
           Lit(" digits; use sys.set_int_max_str_digits() to increase the limit")>>
    ELSE <<Lit("invalid literal for int() with base 10: "), Val(Prefix(<<"'">> \o v \o <<"'">>, 200))>>

\* any(sensitive in var_name.upper() for sensitive in [...])
sensitive(var_name) ==
    \E word \in {<<"P","A","S","S">>, <<"S","E","C","R","E","T">>, <<"K","E","Y">>,
                 <<"T","O","K","E","N">>} : Contains(Upper(var_name), word)

\* validate_required_variables, for a variable that is set: the outcome of
\* its validation function, `valid`, decides the error and the line
validated(spec, v, valid) ==
    LET name == Val(spec.var_name)
    IN  IF valid = "False"
        THEN [errors |-> << <<name, Lit(": "), Lit(spec.error_msg), Lit(" (value: "),
                              Val(Prefix(v, 20)), Lit("...)")>> >>,
              printed |-> << <<Lit("(x) "), name, Lit(" INVALID: "),
                               Lit(spec.error_msg)>> >>]
        ELSE IF valid \in {"invalid literal", "exceeds the limit"}
        THEN [errors |-> << <<name, Lit(": Validation error - ")>> \o int_error(v) >>,
              printed |-> << <<Lit("(x) "), name, Lit(" ERROR: ")>> \o int_error(v) >>]
        ELSE [errors |-> << >>,
              printed |-> << <<Lit("(v) "), name, Lit(" = "),
                               IF sensitive(spec.var_name) THEN Lit("********")
                               ELSE Val(Prefix(v, 30))>> >>]

\* validate_required_variables, the body of the loop for one variable: the
\* errors it appends and the line it prints
validate_variable(spec, env) ==
    LET value == getenv(env, spec.var_name)
        name == Val(spec.var_name)
    IN  IF /\ Truthy(spec.optional_if)
           /\ _check_condition(spec.optional_if.v, env)
           /\ ~Truthy(value)
        THEN [errors |-> << >>,
              printed |-> << <<Lit("(/) "), name, Lit(" (optional: "),
                               Val(spec.optional_if.v), Lit(")")>> >>]
        ELSE IF ~Truthy(value) /\ spec.default # JNull
        THEN [errors |-> << >>,
              printed |-> << <<Lit("(v) "), name, Lit(" = "), Val(spec.default.v),
                               Lit(" (default)")>> >>]
        ELSE IF ~Truthy(value)
        THEN [errors |-> << <<name, Lit(": REQUIRED but not set - description")>> >>,
              printed |-> << <<Lit("(x) "), name, Lit(" MISSING (required)")>> >>]
        ELSE validated(spec, value.v, validation(spec.validation, value.v))

\* validate_required_variables(required_vars, service_name, strict=True)
validate_required_variables(required_vars, service_name, env) ==
    LET RECURSIVE Loop(_, _, _)
        Loop(k, errors, printed) ==
            IF k > Len(required_vars) THEN [errors |-> errors, printed |-> printed]
            ELSE LET one == validate_variable(required_vars[k], env)
                 IN  Loop(k + 1, errors \o one.errors, printed \o one.printed)
        done == Loop(1, << >>, << <<Lit("Validating configuration for: "),
                                    Lit(service_name)>> >>)
        summary == [k \in 1..Len(done.errors) |-> <<Lit("    - ")>> \o done.errors[k]]
    IN  IF done.errors # << >>
        THEN [raised |-> "ConfigurationError", errors |-> done.errors,
              printed |-> done.printed
                          \o << <<Lit("(x) Configuration validation FAILED")>>,
                                <<Lit("  Errors: "), Lit("len(errors)")>> >>
                          \o summary]
        ELSE [raised |-> "no", errors |-> << >>,
              printed |-> Append(done.printed, <<Lit("(v) Configuration validation PASSED")>>)]

\* validate_all_services: the profile of the service type, in the order the
\* dict is filled
required_vars_of(service_type) ==
    (IF service_type \in {"all", "rabbitmq", "core"} THEN CORE_REQUIRED_VARS ELSE << >>)
    \o (IF service_type \in {"all", "redis", "cacher", "trading"} THEN REDIS_VARS ELSE << >>)
    \o (IF service_type \in {"all", "sentiment", "llm"} THEN LLM_VARS ELSE << >>)
    \o (IF service_type \in {"trading", "live"} THEN EXCHANGE_VARS ELSE << >>)

validate_all_services(service_type, env) ==
    validate_required_variables(required_vars_of(service_type), service_type, env)

service_type_map ==
    [service_name \in {"news-poller", "market-streamer", "sentiment-processor",
                       "signal-cacher", "trading-bot"} |->
        CASE service_name = "news-poller" -> "rabbitmq"
          [] service_name = "market-streamer" -> "rabbitmq"
          [] service_name = "sentiment-processor" -> "sentiment"
          [] service_name = "signal-cacher" -> "cacher"
          [] OTHER -> "trading"]

\* validate_env_for_service: sys.exit(1) on ConfigurationError
validate_env_for_service(service_name, env) ==
    LET service_type == Get(service_type_map, service_name, "core")
        done == validate_all_services(service_type, env)
    IN  IF done.raised = "ConfigurationError"
        THEN [exit |-> 1, errors |-> done.errors,
              printed |-> done.printed
                  \o << <<Lit("FATAL: Configuration validation failed: "),
                          Lit("len(errors)"), Lit(" errors")>>,
                        <<Lit("Service '"), Lit(service_name),
                          Lit("' cannot start with invalid configuration")>>,
                        <<Lit("Please check your .env file and ensure all required variables are set.")>> >>]
        ELSE [exit |-> 0, errors |-> << >>, printed |-> done.printed]

\* the length of a port whose repr() is longer than the 200 characters of it
\* that the message of int() shows
LongPort == 199

\* environments: for each variable, that it is unset (None) or its value
EnvChoices ==
    [RABBITMQ_USER : {JNull, JStr(<< >>), JStr(<<"u">>)},
     RABBITMQ_PASS : {JNull, JStr(<<"a","b","c","1","2">>),
                      JStr(<<"l","o","n","g","p","a","s","s","1">>)},
     RABBITMQ_PORT : {JNull, JStr(<<"8","0">>), JStr(<<"0">>), JStr(<<SuperscriptTwo>>),
                      JStr(<<"U+0668", "U+FF10">>), JStr([i \in 1..25 |-> "9"]),
                      JStr([i \in 1..LongPort |-> IF i < LongPort THEN "1"
                                                  ELSE SuperscriptTwo])},
     REDIS_PORT : {JNull, JStr(<<"7","0","0","0","0">>)},
     OLLAMA_HOST : {JNull, JStr(<<"h","t","t","p",":","/","/","o">>),
                    JStr(<<"f","t","p",":","/","/","o">>)},
     BINANCE_API_KEY : {JNull, JStr(<<"s","h","o","r","t">>), JStr([i \in 1..21 |-> "k"])},
     BINANCE_API_SECRET : {JNull, JStr([i \in 1..21 |-> "s"])},
     DRY_RUN : {JNull, JStr(<<"T","R","U","E">>), JStr(<<"f","a","l","s","e">>)}]

\* os.environ of a choice: the variables that are set, by name
Environ(choice) ==
    LET named ==
          << <<CORE_REQUIRED_VARS[1].var_name, choice.RABBITMQ_USER>>,
             <<CORE_REQUIRED_VARS[2].var_name, choice.RABBITMQ_PASS>>,
             <<CORE_REQUIRED_VARS[4].var_name, choice.RABBITMQ_PORT>>,
             <<REDIS_VARS[2].var_name, choice.REDIS_PORT>>,
             <<LLM_VARS[1].var_name, choice.OLLAMA_HOST>>,
             <<EXCHANGE_VARS[1].var_name, choice.BINANCE_API_KEY>>,
             <<EXCHANGE_VARS[2].var_name, choice.BINANCE_API_SECRET>>,
             <<<<"D","R","Y","_","R","U","N">>, choice.DRY_RUN>> >>
        set == {k \in 1..Len(named) : named[k][2] # JNull}
    IN  [var_name \in {named[k][1] : k \in set} |->
            named[CHOOSE k \in set : named[k][1] = var_name][2].v]

\* a service validates its environment at start
ValidateEnv(service_name, choice) ==
    LET env == Environ(choice)
        done == validate_env_for_service(service_name, env)
    IN  /\ FunctionsInit
        /\ env_last' = << [service_name |-> service_name, env |-> env,
                           exit |-> done.exit, errors |-> done.errors,
                           printed |-> done.printed] >>
        /\ UNCHANGED <<schema_last, label_last, pairs_last, entry_last, prune_last, merge_last, redis_last>>
        /\ UNCHANGED <<pollerVars, streamerVars, procVars, consumerVars, strategyVars,
                       cacherVars, clientVars>>

(***************************************************************************)
(* Entry conditions: LLMSentimentStrategy.populate_entry_trend             *)
(***************************************************************************)
rsi_buy_threshold == 30
rsi_sell_threshold == 70

\* a cell of an indicator column: a number, or NaN while the indicator
\* warms up
F(x) == [nan |-> FALSE, x |-> x]
NaN == [nan |-> TRUE, x |-> 0]

\* mutant: the comparisons admit equality
ge(a, b) == ~a.nan /\ ~b.nan /\ a.x >= b.x

\* pandas `a > b` on cells: False when either side is NaN
gt(a, b) == ~a.nan /\ ~b.nan /\ a.x > b.x

\* the same comparison for the sentiment column and the threshold, which
\* hold fractions
gt_score(a, b) == gt(F(a.num * b.den), F(b.num * a.den))

\* populate_entry_trend: the enter_long column, 1 where the mask holds
populate_entry_trend(dataframe) ==
    [k \in 1..Len(dataframe) |->
        LET row == dataframe[k]
        IN  IF /\ gt_score(row.sentiment, sentiment_buy_threshold)
               /\ gt(row.ema_short, row.ema_long)
               /\ gt(F(rsi_sell_threshold), row.rsi)
               /\ gt(row.rsi, F(rsi_buy_threshold))
               /\ gt(row.macd, row.macdsignal)
               /\ gt(row.volume, row.volume_mean)
               /\ gt(row.bb_upper, row.close)
            THEN F(1) ELSE NaN]

\* candles with their indicators, as populate_indicators leaves them
IndicatorRows ==
    [sentiment : {Rat(0, 1), Rat(3, 10), Rat(31, 100), Rat(4, 5)},
     ema_short : {F(2)}, ema_long : {F(1), F(2), NaN},
     rsi : {F(30), F(50), F(70), NaN},
     macd : {F(1)}, macdsignal : {F(0), F(1)},
     volume : {F(5)}, volume_mean : {F(4), F(5), NaN},
     close : {F(9)}, bb_upper : {F(9), F(10)}]

\* dataframes of one candle, and of a candle after one that meets every
\* condition
IndicatorFrames ==
    LET entering == [sentiment |-> Rat(4, 5), ema_short |-> F(2), ema_long |-> F(1),
                     rsi |-> F(50), macd |-> F(1), macdsignal |-> F(0),
                     volume |-> F(5), volume_mean |-> F(4),
                     close |-> F(9), bb_upper |-> F(10)]
    IN  { <<row>> : row \in IndicatorRows } \cup { <<entering, row>> : row \in IndicatorRows }

\* the bot calls populate_entry_trend on an analysed dataframe
PopulateEntryTrend(dataframe) ==
    /\ FunctionsInit
    /\ entry_last' = << [dataframe |-> dataframe,
                         enter_long |-> populate_entry_trend(dataframe)] >>
    /\ UNCHANGED <<schema_last, label_last, pairs_last, env_last, prune_last, merge_last, redis_last>>
    /\ UNCHANGED <<pollerVars, streamerVars, procVars, consumerVars, strategyVars,
                   cacherVars, clientVars>>

\* The ids of a recent-seen set of n articles are named by insertion rank
\* (1 the oldest). list(self.published_articles) walks the set in hash order,
\* a permutation of the ranks that the insertion order does not determine.
\* prune: the pruning that ends _poll_all_feeds, on the set of the ranks
\* 1..Len(articles_list) that list() hands over as articles_list
prune(articles_list) ==
    IF Len(articles_list) > PruneHigh
    THEN { articles_list[i] : i \in (Len(articles_list) - PruneKeep + 1)..Len(articles_list) }
    ELSE { articles_list[i] : i \in 1..Len(articles_list) }

\* the ranks a pruning is observed at: the oldest id, the newest of the
\* n - 8000 oldest, the oldest of the 8000 newest, and the newest id
Tracked(n) == {1, n - PruneKeep, n - PruneKeep + 1, n}

\* the ranks from..to, in order
Ranks(from, to) == [i \in 1..(to - from + 1) |-> from + i - 1]

\* the ranks from..n that are not in `skipped`, a list in rising order
RECURSIVE RanksWithout(_, _, _)
RanksWithout(from, n, skipped) ==
    IF skipped = << >> THEN Ranks(from, n)
    ELSE Ranks(from, Head(skipped) - 1) \o RanksWithout(Head(skipped) + 1, n, Tail(skipped))

\* the ranks of a set, in rising order
Sorted(ranks) ==
    [i \in 1..Cardinality(ranks) |->
        CHOOSE f \in ranks : Cardinality({g \in ranks : g <= f}) = i]

\* a hash order of n ids: the tracked ranks of `front` first, the tracked
\* ranks outside it last, the other ids between them by rank. Every way a
\* pruning can treat the tracked ranks is produced by one of these orders.
HashOrder(n, front) ==
    Sorted(front) \o RanksWithout(1, n, Sorted(Tracked(n))) \o Sorted(Tracked(n) \ front)

\* a polling cycle ends with n ids in the recent-seen set, which iterates in
\* the hash order given; what is recorded of the ids kept is their number and
\* the tracked ranks among them
PruneCache(n, hash_order) ==
    /\ FunctionsInit
    /\ LET kept == prune(hash_order)
       IN  prune_last' = << [n |-> n, size |-> Cardinality(kept),
                             kept |-> kept \cap Tracked(n)] >>
    /\ UNCHANGED <<schema_last, label_last, pairs_last, env_last, entry_last, merge_last, redis_last>>
    /\ UNCHANGED <<pollerVars, streamerVars, procVars, consumerVars, strategyVars,
                   cacherVars, clientVars>>

\* merge_with_market_data: the default of tolerance_hours
tolerance_hours_default == 1

\* check_look_ahead_bias of data_validator.py: the tolerance of its own merge
validator_tolerance_hours == 6

\* pd.merge_asof(market_df, sentiment_df, left_on="timestamp",
\* right_on="timestamp", direction="backward", tolerance=...) on sorted
\* frames: one row per market row, in order, with the sentiment_score of the
\* last sentiment row at or before it, when that row is no more than the
\* tolerance older, and NaN otherwise. Both keys are named "timestamp", so
\* the result has one timestamp column, the market's; sentiment_at is not a
\* column: it records the row that was matched.
merge_asof(market_frame, sentiment_frame, tolerance) ==
    [k \in 1..Len(market_frame) |->
        LET at == market_frame[k].timestamp.hour
            before == { i \in 1..Len(sentiment_frame) : sentiment_frame[i].timestamp.hour <= at }
            i == CHOOSE i \in before : \A j \in before : j <= i
        IN  IF before # {} /\ at - sentiment_frame[i].timestamp.hour <= tolerance
            THEN [timestamp |-> market_frame[k].timestamp, close |-> market_frame[k].close,
                  sentiment_score |-> [nan |-> FALSE, x |-> sentiment_frame[i].sentiment_score],
                  sentiment_at |-> sentiment_frame[i].timestamp]
            ELSE [timestamp |-> market_frame[k].timestamp, close |-> market_frame[k].close,
                  sentiment_score |-> [nan |-> TRUE, x |-> Rat(0, 1)],
                  sentiment_at |-> TsCell("missing", 0)]]

\* Series.fillna(0.0) on the sentiment_score column
fillna(merged_df) ==
    [k \in 1..Len(merged_df) |->
        [merged_df[k] EXCEPT !.sentiment_score =
            IF @.nan THEN [nan |-> FALSE, x |-> Rat(0, 1)] ELSE @]]

\* SignalProcessor.merge_with_market_data with the default column names;
\* tolerance_hours is << >> when the caller leaves it out. The future mask
\* compares the one timestamp column of the merged frame with itself.
merge_with_market_data(sentiment_frame, market_frame, tolerance_hours) ==
    IF sentiment_frame = << >> \/ market_frame = << >> THEN << >>
    ELSE LET tolerance == IF tolerance_hours = << >> THEN tolerance_hours_default
                          ELSE tolerance_hours[1]
             merged_df == fillna(merge_asof(sort_values(market_frame),
                                            sort_values(sentiment_frame), tolerance))
         IN  SelectSeq(merged_df,
                       LAMBDA row : ~(row.timestamp.hour > row.timestamp.hour))

\* sentiment frames and candle frames handed to the merge
MergeSentimentFrames ==
    SeqsUpTo({ [timestamp |-> TsCell("ok", h), sentiment_score |-> s] :
                  h \in {0, 1}, s \in CsvScores }, MaxRows)
MergeMarketFrames ==
    SeqsUpTo({ [timestamp |-> TsCell("ok", h), close |-> 100 + h] :
                  h \in 0..MaxMergeHour }, MaxRows)
ToleranceChoices == {<< >>, <<0>>, <<validator_tolerance_hours>>}

\* a caller merges a sentiment frame with a candle frame
MergeWithMarketData(sentiment_frame, market_frame, tolerance_hours) ==
    /\ FunctionsInit
    /\ merge_last' = << [sentiment_df |-> sentiment_frame, market_df |-> market_frame,
                         tolerance_hours |-> tolerance_hours,
                         result |-> merge_with_market_data(sentiment_frame, market_frame,
                                                           tolerance_hours)] >>
    /\ UNCHANGED <<schema_last, label_last, pairs_last, env_last, entry_last, prune_last,
                   redis_last>>
    /\ UNCHANGED <<pollerVars, streamerVars, procVars, consumerVars, strategyVars,
                   cacherVars, clientVars>>

\* the data operations of RedisClient
RedisDataOps ==
    {"set_json", "get_json", "hset_json", "hgetall_json", "hget", "lpush",
     "lrange", "expire", "delete", "exists", "keys"}

\* what the except clause of each data operation returns
failure_default(op) ==
    CASE op \in {"set_json", "expire"} -> "False"
      [] op \in {"hset_json", "lpush", "delete", "exists"} -> "0"
      [] op = "hgetall_json" -> "{}"
      [] op \in {"lrange", "keys"} -> "[]"
      [] OTHER -> "default"

\* RedisClient._connect on self.client, which is "None" or "Redis" (a
\* redis.Redis object): attempts 0 .. max_retries - 1, each of which makes a
\* new redis.Redis object and pings it; the ping of the first fails_first
\* attempts raises ConnectionError or TimeoutError of redis.exceptions;
\* time.sleep(retry_delay) after a failed attempt that is not the last,
\* ConnectionError after the last. With max_retries = 0 the loop has no
\* attempt and self.client stays what it was.
RECURSIVE _connect(_, _, _, _, _)
_connect(client, max_retries, fails_first, attempt, sleeps) ==
    IF attempt >= max_retries
    THEN [attempts |-> attempt, sleeps |-> sleeps, result |-> "returned",
          client |-> client]
    ELSE IF attempt >= fails_first
    THEN [attempts |-> attempt + 1, sleeps |-> sleeps, result |-> "returned",
          client |-> "Redis"]
    ELSE IF attempt < max_retries - 1
    THEN _connect("Redis", max_retries, fails_first, attempt + 1, sleeps + 1)
    ELSE [attempts |-> attempt + 1, sleeps |-> sleeps, result |-> "ConnectionError",
          client |-> "Redis"]

\* RedisClient.__init__ that returned: self.client = None, then _connect()
\* with every attempt succeeding
RedisClient(max_retries) == _connect("None", max_retries, 0, 0, 0).client

\* what self.client.ping() does on a redis.Redis object: it answers, raises
\* one of the exceptions ensure_connection catches, or raises another one
PingOutcomes == {"ok", "ConnectionError", "TimeoutError", "ResponseError"}

\* RedisClient.ensure_connection: how it ends, the self.client it leaves and
\* the attempts of _connect; self.client.ping() on None raises
\* AttributeError, which is caught like ConnectionError and TimeoutError
redis_ensure_connection(client, ping, max_retries, fails_first) ==
    LET pinged == IF client = "None" THEN "AttributeError" ELSE ping
        made == _connect(client, max_retries, fails_first, 0, 0)
    IN  IF pinged = "ok"
        THEN [result |-> "returned", client |-> client, attempts |-> 0]
        ELSE IF pinged \in {"ConnectionError", "TimeoutError", "AttributeError"}
        THEN [result |-> made.result, client |-> made.client, attempts |-> made.attempts]
        ELSE [result |-> pinged, client |-> client, attempts |-> 0]

\* what the command of an operation on self.client does: it raises, or it
\* answers with one of the replies of the command ("n": a count above 0)
CommandReplies(op) ==
    {"raises"} \cup
        CASE op = "set_json" -> {"True"}
          [] op = "get_json" -> {"None", "json", "not_json"}
          [] op = "hgetall_json" -> {"{}", "hash"}
          [] op = "hget" -> {"None", "value"}
          [] op = "lpush" -> {"n"}
          [] op = "expire" -> {"True", "False"}
          [] op \in {"hset_json", "delete", "exists"} -> {"0", "n"}
          [] OTHER -> {"[]", "list"}

\* the method of self.client an operation calls; set_json(key, value, ttl)
\* calls setex when ttl is given and not 0 (ttl is << >> or <<seconds>>)
redis_command(op, ttl) ==
    CASE op = "set_json" -> IF ttl # << >> /\ ttl[1] # 0 THEN "setex" ELSE "set"
      [] op = "get_json" -> "get"
      [] op = "hset_json" -> "hset"
      [] op = "hgetall_json" -> "hgetall"
      [] OTHER -> op

\* what an operation makes of the reply of its command: get_json returns
\* the default for None and json.loads(value) otherwise, which raises
\* JSONDecodeError on text that is no JSON; hgetall_json returns {} for an
\* empty reply and decodes the fields of any other; hget returns the default
\* for None; the other operations return the reply
redis_reply(op, reply) ==
    CASE op = "get_json" /\ reply = "None" -> [raised |-> "no", value |-> "default"]
      [] op = "get_json" /\ reply = "json" -> [raised |-> "no", value |-> "loads"]
      [] op = "get_json" /\ reply = "not_json" ->
            [raised |-> "JSONDecodeError", value |-> "none"]
      [] op = "hgetall_json" /\ reply = "hash" -> [raised |-> "no", value |-> "dict"]
      [] op = "hget" /\ reply = "None" -> [raised |-> "no", value |-> "default"]
      [] OTHER -> [raised |-> "no", value |-> reply]

\* the try block of a data operation: ensure_connection(), then the command
\* on self.client, which raises AttributeError when self.client is None;
\* what it raises or returns, the self.client it leaves and the command it
\* has called. The values handed to set_json and hset_json are the dicts of
\* JSON values their signatures name, which json.dumps accepts.
redis_try(op, ttl, client, ping, max_retries, fails_first, reply) ==
    LET ensured == redis_ensure_connection(client, ping, max_retries, fails_first)
        failed(exception, command) ==
            [raised |-> exception, value |-> "none", client |-> ensured.client,
             command |-> command]
    IN  IF ensured.result # "returned" THEN failed(ensured.result, "none")
        ELSE IF ensured.client = "None" THEN failed("AttributeError", "none")
        ELSE IF reply = "raises" THEN failed("Exception", redis_command(op, ttl))
        ELSE [raised |-> redis_reply(op, reply).raised,
              value |-> redis_reply(op, reply).value,
              client |-> ensured.client, command |-> redis_command(op, ttl)]

\* mutant: what the try block raises is not caught
redis_op_uncaught(op, ttl, client, ping, max_retries, fails_first, reply) ==
    redis_try(op, ttl, client, ping, max_retries, fails_first, reply)

\* a data operation of RedisClient: the try block and its except clauses,
\* which return the failure default
redis_op(op, ttl, client, ping, max_retries, fails_first, reply) ==
    LET body == redis_try(op, ttl, client, ping, max_retries, fails_first, reply)
    IN  IF body.raised # "no"
        THEN [body EXCEPT !.raised = "no", !.value = failure_default(op)]
        ELSE body

\* a caller runs one data operation on a RedisClient constructed with
\* max_retries; the keys are kept by the server, which is told the command
\* recorded and answers it with `reply`
RedisOp(op, ttl, max_retries, ping, fails_first, reply) ==
    /\ FunctionsInit
    /\ redis_last' = << [op |-> op, ttl |-> ttl, max_retries |-> max_retries,
                         client |-> RedisClient(max_retries), ping |-> ping,
                         fails_first |-> fails_first, reply |-> reply,
                         outcome |-> redis_op(op, ttl, RedisClient(max_retries), ping,
                                              max_retries, fails_first, reply)] >>
    /\ UNCHANGED <<schema_last, label_last, pairs_last, env_last, entry_last, prune_last,
                   merge_last>>
    /\ UNCHANGED <<pollerVars, streamerVars, procVars, consumerVars, strategyVars,
                   cacherVars, clientVars>>

\* each function is called once, in a fresh process
FunctionsNext ==
    \/ FunctionsInit /\ \E payload \in MarketPayloads : ValidateMarket(payload)
    \/ FunctionsInit /\
          \E payload \in NewsPayloads,
             allowed_news_domains \in {ALLOWED_NEWS_DOMAINS, EmptiedNewsDomains} :
             ValidateNews(payload, allowed_news_domains)
    \/ FunctionsInit /\ \E score \in LabelScores : LabelScore(score)
    \/ FunctionsInit /\ \E entries \in PairEntryLists : StartProcessor(entries)
    \/ FunctionsInit /\
          \E service_name \in DOMAIN service_type_map, choice \in EnvChoices :
             ValidateEnv(service_name, choice)
    \/ FunctionsInit /\ \E dataframe \in IndicatorFrames : PopulateEntryTrend(dataframe)
    \/ FunctionsInit /\
          \E n \in (PruneHigh - 1)..(PruneHigh + MaxOver) :
             \E front \in SUBSET Tracked(n) : PruneCache(n, HashOrder(n, front))
    \/ FunctionsInit /\
          \E sentiment_frame \in MergeSentimentFrames, market_frame \in MergeMarketFrames,
             tolerance_hours \in ToleranceChoices :
             MergeWithMarketData(sentiment_frame, market_frame, tolerance_hours)
    \/ FunctionsInit /\
          \E op \in RedisDataOps, max_retries \in 0..MaxRetries, ping \in PingOutcomes,
             fails_first \in 0..MaxRetries :
             \E ttl \in (IF op = "set_json" THEN {<< >>, <<0>>, <<MaxTtl>>} ELSE {<< >>}),
                reply \in CommandReplies(op) :
                RedisOp(op, ttl, max_retries, ping, fails_first, reply)

(***************************************************************************)
(* Broker and cache connections: RabbitMQClient, RedisClient.close and     *)
(* SignalCacher.shutdown                                                   *)
(***************************************************************************)
\* self.connection and self.channel are None, or a pika object that is open
\* or closed (is_closed); channel_of: whether self.channel was made by
\* self.connection ("connection") or by an earlier connection object ("other")
NewClient == [connection |-> "None", channel |-> "None", channel_of |-> "None"]

\* what a failing attempt of connect() does before AMQPConnectionError is
\* raised: BlockingConnection(parameters) raises it and self.connection is
\* not assigned ("connection"); or the connection is assigned and
\* self.connection.channel() raises it, the connection staying open
\* ("channel_open") or being closed by the failure ("channel_closed")
ConnectFailures == {"connection", "channel_open", "channel_closed"}

\* self.connection and self.channel after an attempt that assigned the
\* connection and not the channel
without_channel(client, connection) ==
    [connection |-> connection, channel |-> client.channel,
     channel_of |-> IF client.channel = "None" THEN "None" ELSE "other"]

\* self.connection and self.channel after a failing attempt
failed_attempt(client, failure) ==
    CASE failure = "connection" -> client
      [] failure = "channel_open" -> without_channel(client, "open")
      [] OTHER -> without_channel(client, "closed")

\* the loop of RabbitMQClient.connect: attempts 0 .. max_retries - 1, of
\* which the first fails_first fail with AMQPConnectionError the way
\* `failure` says; time.sleep(retry_delay) after a failed attempt that is
\* not the last, ConnectionError after the last. In the attempt after them
\* the connection is made and connection.channel() returns (channel_ok) or
\* raises an exception that is no AMQPConnectionError, which leaves
\* connect() uncaught.
RECURSIVE connect_loop(_, _, _, _, _, _, _)
connect_loop(client, max_retries, fails_first, failure, channel_ok, attempt, sleeps) ==
    IF attempt >= max_retries
    THEN [attempts |-> attempt, sleeps |-> sleeps, result |-> "returned",
          client |-> client]
    ELSE IF attempt >= fails_first
    THEN IF channel_ok
         THEN [attempts |-> attempt + 1, sleeps |-> sleeps, result |-> "returned",
               client |-> [connection |-> "open", channel |-> "open",
                           channel_of |-> "connection"]]
         ELSE [attempts |-> attempt + 1, sleeps |-> sleeps, result |-> "ChannelError",
               client |-> without_channel(client, "open")]
    ELSE IF attempt < max_retries - 1
    THEN connect_loop(failed_attempt(client, failure), max_retries, fails_first,
                      failure, channel_ok, attempt + 1, sleeps + 1)
    ELSE [attempts |-> attempt + 1, sleeps |-> sleeps, result |-> "ConnectionError",
          client |-> failed_attempt(client, failure)]

\* RabbitMQClient.connect: its attempts and sleeps, how it ends ("returned",
\* "ConnectionError" or "ChannelError") and the client it leaves
connect(client, max_retries, fails_first, failure, channel_ok) ==
    connect_loop(client, max_retries, fails_first, failure, channel_ok, 0, 0)

\* mutant: close() is called on every object the client holds
close_unchecked(client) ==
    [client |-> [connection |-> IF client.connection # "None" THEN "closed" ELSE "None",
                 channel |-> IF client.channel # "None" THEN "closed" ELSE "None",
                 channel_of |-> client.channel_of],
     calls |-> (IF client.channel # "None" THEN <<"channel.close">> ELSE << >>)
               \o (IF client.connection # "None" THEN <<"connection.close">> ELSE << >>)]

\* RabbitMQClient.close: the client it leaves and the calls it makes on the
\* pika objects, in order
close(client) ==
    [client |-> [connection |-> IF client.connection = "open" THEN "closed"
                                ELSE client.connection,
                 channel |-> IF client.channel = "open" THEN "closed" ELSE client.channel,
                 channel_of |-> client.channel_of],
     calls |-> (IF client.channel = "open" THEN <<"channel.close">> ELSE << >>)
               \o (IF client.connection = "open" THEN <<"connection.close">> ELSE << >>)]

\* RedisClient.close: the call is made on the redis object the client holds;
\* self.client is None when the constructor made no attempt (max_retries=0)
redis_close(state) ==
    IF state = "None" THEN [redis |-> "None", calls |-> << >>]
    ELSE [redis |-> "closed", calls |-> <<"redis.close">>]

\* SignalCacher.shutdown
shutdown(client, state) ==
    LET broker == close(client)
        cache == redis_close(state)
    IN  [client |-> broker.client, redis |-> cache.redis,
         calls |-> broker.calls \o cache.calls]

\* one entry of the call log
Call(op, calls) ==
    [op |-> op, before |-> rabbitmq, calls |-> calls]

\* the record of one connect() call
ConnectRecord(client, max_retries, fails_first, failure, channel_ok) ==
    LET run == connect(client, max_retries, fails_first, failure, channel_ok)
    IN  [max_retries |-> max_retries, fails_first |-> fails_first, failure |-> failure,
         attempts |-> run.attempts, sleeps |-> run.sleeps, result |-> run.result,
         client |-> run.client]

\* mutant: the channel is not looked at
ensure_connection_no_channel(client, max_retries, fails_first, failure, channel_ok) ==
    LET reconnect == client.connection \in {"None", "closed"}
        made == connect(client, max_retries, fails_first, failure, channel_ok)
    IN  IF reconnect /\ made.result # "returned"
        THEN [client |-> made.client, result |-> "raised", connected |-> TRUE]
        ELSE [client |-> IF reconnect THEN made.client ELSE client,
              result |-> "returned", connected |-> reconnect]

\* RabbitMQClient.ensure_connection: the client it leaves, whether it
\* returned or raised, and whether it called connect(). connection.channel()
\* raises on a connection that is None (AttributeError) or closed, and when
\* channel_ok is false.
ensure_connection(client, max_retries, fails_first, failure, channel_ok) ==
    LET reconnect == client.connection \in {"None", "closed"}
        made == connect(client, max_retries, fails_first, failure, channel_ok)
        c1 == IF reconnect THEN made.client ELSE client
    IN  IF reconnect /\ made.result # "returned"
        THEN [client |-> c1, result |-> "raised", connected |-> TRUE]
        ELSE IF c1.channel \in {"None", "closed"}
        THEN IF c1.connection = "open" /\ channel_ok
             THEN [client |-> [c1 EXCEPT !.channel = "open", !.channel_of = "connection"],
                   result |-> "returned", connected |-> reconnect]
             ELSE [client |-> c1, result |-> "raised", connected |-> reconnect]
        ELSE [client |-> c1, result |-> "returned", connected |-> reconnect]

\* RabbitMQClient.declare_queue, publish and consume: the calls each makes,
\* in order, up to the first one that raises (the channel calls themselves
\* are taken to succeed)
channel_op(op, declare_queue, ensured) ==
    IF ensured.result = "raised" THEN <<"ensure_connection">>
    ELSE CASE op = "declare_queue" -> <<"ensure_connection", "channel.queue_declare">>
           [] op = "publish" ->
                <<"ensure_connection">>
                \o (IF declare_queue THEN <<"ensure_connection", "channel.queue_declare">>
                    ELSE << >>)
                \o <<"channel.basic_publish">>
           [] OTHER ->
                <<"ensure_connection">>
                \o (IF declare_queue THEN <<"ensure_connection", "channel.queue_declare">>
                    ELSE << >>)
                \o <<"channel.basic_qos", "channel.basic_consume", "channel.start_consuming">>

\* a service constructs its client and calls RabbitMQClient.connect() (the
\* services do so once, in their constructors)
Connect(max_retries, fails_first, failure, channel_ok) ==
    /\ Len(call_log) < MaxClientCalls
    /\ rabbitmq.connection = "None"
    /\ rabbitmq' = connect(rabbitmq, max_retries, fails_first, failure, channel_ok).client
    /\ call_log' = Append(call_log, Call("connect", << >>))
    /\ connect_last' = << ConnectRecord(rabbitmq, max_retries, fails_first, failure,
                                        channel_ok) >>
    /\ UNCHANGED <<redis_connection, ensure_last>>
    /\ UNCHANGED <<pollerVars, streamerVars, procVars, consumerVars, strategyVars,
                   cacherVars, fnVars>>

\* a service calls declare_queue, publish or consume
ChannelOp(op, declare_queue, max_retries, fails_first, failure, channel_ok) ==
    LET ensured == ensure_connection(rabbitmq, max_retries, fails_first, failure,
                                     channel_ok)
    IN  /\ Len(call_log) < MaxClientCalls
        /\ rabbitmq' = ensured.client
        /\ call_log' = Append(call_log, Call(op, channel_op(op, declare_queue, ensured)))
        /\ ensure_last' = << [before |-> rabbitmq, result |-> ensured.result,
                              client |-> ensured.client] >>
        /\ connect_last' =
              IF ensured.connected
              THEN << ConnectRecord(rabbitmq, max_retries, fails_first, failure,
                                    channel_ok) >>
              ELSE connect_last
        /\ UNCHANGED redis_connection
        /\ UNCHANGED <<pollerVars, streamerVars, procVars, consumerVars, strategyVars,
                       cacherVars, fnVars>>

\* the broker closes the channel (a channel error)
ChannelLost ==
    /\ Len(call_log) < MaxClientCalls
    /\ rabbitmq.channel = "open"
    /\ rabbitmq' = [rabbitmq EXCEPT !.channel = "closed"]
    /\ call_log' = Append(call_log, Call("channel_lost", << >>))
    /\ UNCHANGED <<redis_connection, connect_last, ensure_last>>
    /\ UNCHANGED <<pollerVars, streamerVars, procVars, consumerVars, strategyVars,
                   cacherVars, fnVars>>

\* the connection drops, and its channels with it
ConnectionLost ==
    /\ Len(call_log) < MaxClientCalls
    /\ rabbitmq.connection = "open"
    /\ rabbitmq' = [connection |-> "closed",
                    channel |-> IF rabbitmq.channel = "open" THEN "closed"
                                ELSE rabbitmq.channel,
                    channel_of |-> rabbitmq.channel_of]
    /\ call_log' = Append(call_log, Call("connection_lost", << >>))
    /\ UNCHANGED <<redis_connection, connect_last, ensure_last>>
    /\ UNCHANGED <<pollerVars, streamerVars, procVars, consumerVars, strategyVars,
                   cacherVars, fnVars>>

\* a service calls RabbitMQClient.close()
Close ==
    /\ Len(call_log) < MaxClientCalls
    /\ rabbitmq' = close(rabbitmq).client
    /\ call_log' = Append(call_log, Call("close", close(rabbitmq).calls))
    /\ UNCHANGED <<redis_connection, connect_last, ensure_last>>
    /\ UNCHANGED <<pollerVars, streamerVars, procVars, consumerVars, strategyVars,
                   cacherVars, fnVars>>

\* the signal cacher, constructed with both clients, shuts down
Shutdown ==
    /\ Len(call_log) < MaxClientCalls
    /\ rabbitmq.connection # "None"
    /\ rabbitmq' = shutdown(rabbitmq, redis_connection).client
    /\ redis_connection' = shutdown(rabbitmq, redis_connection).redis
    /\ call_log' = Append(call_log, Call("shutdown", shutdown(rabbitmq, redis_connection).calls))
    /\ UNCHANGED <<connect_last, ensure_last>>
    /\ UNCHANGED <<pollerVars, streamerVars, procVars, consumerVars, strategyVars,
                   cacherVars, fnVars>>

ClientInit ==
    /\ rabbitmq = NewClient
    /\ redis_connection = "open"
    /\ call_log = << >>
    /\ connect_last = << >>
    /\ ensure_last = << >>

\* the inputs of a connect() call: at most max_retries attempts can fail, the
\* kind of failure is an input when an attempt fails, and channel_ok when an
\* attempt succeeds
ConnectInputs ==
    { <<max_retries, fails_first, failure, channel_ok>> \in
          (0..MaxRetries) \X (0..MaxRetries) \X ConnectFailures \X BOOLEAN :
          /\ fails_first <= max_retries
          /\ fails_first = 0 => failure = "connection"
          /\ fails_first = max_retries => channel_ok }

\* the inputs of an ensure_connection() call: those of connect() when it
\* calls connect(), else channel_ok for the channel it opens itself
EnsureInputs(client) ==
    IF client.connection \in {"None", "closed"} THEN ConnectInputs
    ELSE { <<1, 0, "connection", channel_ok>> : channel_ok \in BOOLEAN }

ClientNext ==
    \/ \E i \in ConnectInputs : Connect(i[1], i[2], i[3], i[4])
    \/ \E op \in {"declare_queue", "publish", "consume"}, declare_queue \in BOOLEAN,
          i \in EnsureInputs(rabbitmq) :
             ChannelOp(op, declare_queue, i[1], i[2], i[3], i[4])
    \/ ChannelLost
    \/ ConnectionLost
    \/ Close
    \/ Shutdown

(***************************************************************************)
(* Specifications                                                          *)
(***************************************************************************)
Init ==
    /\ PollerInit
    /\ StreamerInit
    /\ ProcessorInit
    /\ ConsumerInit
    /\ StrategyInit
    /\ CacherInit
    /\ FunctionsInit
    /\ ClientInit

SpecPoller == Init /\ [][PollerNext]_vars

SpecStreamer == Init /\ [][StreamerNext]_vars

\* the event loop resumes a task when its asyncio.sleep(5) is over
SpecStreamerLive ==
    Init /\ [][StreamerNext]_vars /\ \A t \in Tasks : WF_vars(SleepDone(t))

SpecProcessor == Init /\ [][ProcessorNext]_vars

\* pika's start_consuming loop keeps delivering ready messages to the
\* callback and keeps running the callback on what was delivered
SpecProcessorLive ==
    Init /\ [][ProcessorNext]_vars /\ WF_vars(DeliverNews) /\ WF_vars(HandleNewsAny)

SpecConsumer == Init /\ [][ConsumerNext]_vars

SpecStrategy == Init /\ [][StrategyNext]_vars

SpecCacher == Init /\ [][CacherNext]_vars

SpecFunctions == Init /\ [][FunctionsNext]_vars

SpecClient == Init /\ [][ClientNext]_vars

(***************************************************************************)
(* Claims                                                                  *)
(***************************************************************************)
\* C1: within one poller lifetime no article_id is published to
\* raw_news_data more than once.
ArticleIdCount(id) ==
    LET ms == { m \in BagToSet(raw_news_data) : m.article_id = id }
        RECURSIVE Sum(_)
        Sum(S) == IF S = {} THEN 0
                  ELSE LET m == CHOOSE x \in S : TRUE
                       IN  CopiesIn(m, raw_news_data) + Sum(S \ {m})
    IN  Sum(ms)

C1_NoArticlePublishedTwice ==
    \A m \in BagToSet(raw_news_data) : ArticleIdCount(m.article_id) <= 1

\* C2: under any interleaving of the streaming tasks no (pair, timestamp_ms)
\* candle is published twice, and the timestamps published for one pair are
\* strictly increasing in publication order.
C2_CandlesStrictlyIncreasing ==
    \A i, j \in 1..Len(raw_market_data) :
        (i < j /\ raw_market_data[i].symbol = raw_market_data[j].symbol)
            => raw_market_data[i].timestamp_ms < raw_market_data[j].timestamp_ms

C2_Witness ==
    \E i, j \in 1..Len(raw_market_data) :
        /\ i < j
        /\ raw_market_data[i].symbol = raw_market_data[j].symbol
        /\ \E k \in 1..Len(raw_market_data) :
              i < k /\ k < j /\ raw_market_data[k].symbol # raw_market_data[i].symbol
        /\ \E t \in Tasks : task_pc[t] = "sleep"

\* C3: every signal published to sentiment_signals_queue has a score in
\* [-1, +1] and carries the label of the bucket of its score (>= 0.7
\* very_bullish, >= 0.3 bullish, <= -0.7 very_bearish, <= -0.3 bearish,
\* else neutral), whichever oracle produced the score.
BucketOf(score) ==
    IF RatGe(score, Rat(7, 10)) THEN "very_bullish"
    ELSE IF RatGe(score, Rat(3, 10)) THEN "bullish"
    ELSE IF RatLe(score, Rat(-7, 10)) THEN "very_bearish"
    ELSE IF RatLe(score, Rat(-3, 10)) THEN "bearish"
    ELSE "neutral"

C3_ScoreInRangeAndLabelled ==
    \A k \in 1..Len(sentiment_signals_queue) :
        LET sig == sentiment_signals_queue[k]
        IN  /\ sig.sentiment_score.den > 0
            /\ -sig.sentiment_score.den <= sig.sentiment_score.num
            /\ sig.sentiment_score.num <= sig.sentiment_score.den
            /\ sig.sentiment_label = BucketOf(sig.sentiment_score)

C3_Witness ==
    \E i, j \in 1..Len(sentiment_signals_queue) :
        /\ sentiment_signals_queue[i].model = "finbert"
        /\ sentiment_signals_queue[i].sentiment_score = analyze_sentiment(
                                         [positive |-> 30, negative |-> 0])
        /\ sentiment_signals_queue[i].sentiment_label = "bullish"
        /\ sentiment_signals_queue[j].model = "fallback_keywords"
        /\ sentiment_signals_queue[j].sentiment_label = "very_bullish"

\* C4: every candle of the last populate_indicators call carries the score
\* of a latest signal among those with timestamp <= the candle's time, or
\* 0.0 when there is no such signal; a later signal is never used.
SignalsUpTo(frame, T) ==
    { i \in 1..Len(frame.rows) :
        frame.rows[i].timestamp.kind = "ok" /\ frame.rows[i].timestamp.hour <= T }

LatestUpTo(frame, T) ==
    { i \in SignalsUpTo(frame, T) :
        \A j \in SignalsUpTo(frame, T) :
            frame.rows[j].timestamp.hour <= frame.rows[i].timestamp.hour }

C4_NoLookAhead ==
    \A n \in 1..Len(last_populate) :
        LET p == last_populate[n]
        IN  \A k \in 1..Len(p.dataframe) :
               LET T == p.dataframe[k].date
               IN  IF SignalsUpTo(p.sentiment_df, T) = {}
                   THEN p.dataframe[k].sentiment = Rat(0, 1)
                   ELSE \E i \in LatestUpTo(p.sentiment_df, T) :
                           p.dataframe[k].sentiment = p.sentiment_df.rows[i].sentiment_score

\* C5: in the last populate_indicators call, a candle whose latest signal
\* is older than sentiment_stale_hours carries score 0, and a candle whose
\* latest signal is at most that old carries the score of the signal.
C5_StaleSignalNeutralised ==
    \A n \in 1..Len(last_populate) :
        LET p == last_populate[n]
        IN  \A k \in 1..Len(p.dataframe) :
               LET T == p.dataframe[k].date
               IN  \A i \in LatestUpTo(p.sentiment_df, T) :
                      IF T - p.sentiment_df.rows[i].timestamp.hour > sentiment_stale_hours
                      THEN p.dataframe[k].sentiment.num = 0
                      ELSE \E j \in LatestUpTo(p.sentiment_df, T) :
                              p.dataframe[k].sentiment = p.sentiment_df.rows[j].sentiment_score

\* C6: for the article handled last, the secondary scorer was invoked only
\* if the primary oracle raised or returned None; every signal published for
\* it is tagged finbert exactly when the primary returned a score,
\* fallback_keywords exactly when the primary failed and the secondary
\* returned, neutral_default exactly when both failed, and then with score
\* 0; fallback_used is true exactly when the tag is not finbert; and when an
\* oracle failed the callback still acknowledged the message.
PrimaryFailed(d) == d.primary_kind \in {"raise", "none"}

C6_OracleCascadeTags ==
    \A n \in 1..Len(last_delivery) :
        LET d == last_delivery[n]
        IN  /\ d.result.secondary_called => PrimaryFailed(d)
            /\ PrimaryFailed(d) => d.events = <<"ack">>
            /\ \A k \in 1..Len(d.result.published) :
                  LET sig == d.result.published[k]
                  IN  /\ (sig.model = "finbert") <=> (d.primary_kind = "score")
                      /\ (sig.model = "fallback_keywords")
                            <=> (PrimaryFailed(d) /\ d.result.secondary_called
                                    /\ ~d.secondary_raised)
                      /\ (sig.model = "neutral_default")
                            <=> (PrimaryFailed(d) /\ d.secondary_raised)
                      /\ (sig.model = "neutral_default") => sig.sentiment_score.num = 0
                      /\ sig.fallback_used <=> (sig.model # "finbert")

C6_Witness ==
    /\ Len(last_delivery) = 1
    /\ last_delivery[1].primary_kind = "none"
    /\ last_delivery[1].secondary_raised
    /\ last_delivery[1].events = <<"ack">>
    /\ Len(last_delivery[1].result.published) = 3
    /\ \E k \in 1..Len(sentiment_signals_queue) :
          sentiment_signals_queue[k].model = "fallback_keywords"

\* C7: every message delivered to the consumer of the sentiment processor is
\* eventually acked or nacked without requeue.
C7_EveryDeliverySettles ==
    \A id \in 1..MaxNews :
        [](( \E n \in 1..Len(news_unacked) : news_unacked[n].id = id )
              => <>(id \in news_settled))

\* C8: every delivery handled by a callback built with safe_message_consumer
\* or (with auto_ack off) create_consumer_callback gets exactly one ack or
\* nack: a nack without requeue when the body is not JSON or fails the
\* schema, and then the user callback is not invoked; a nack with requeue
\* when the user callback raised; an ack after the callback when it returned.
Decoding(d) ==
    IF d.wrapper = "safe_message_consumer" THEN d.body.detected ELSE d.body.utf8
BodyFailed(d) ==
    \/ Decoding(d) # "value"
    \/ d.body.v.t = "dict" /\ ~d.validates

C8_AckNackRouting ==
    \A d \in consumer_log :
        (~d.auto_ack /\ (Decoding(d) = "value" => d.body.v.t = "dict")) =>
            /\ Len(d.outcome.events) = 1
            /\ BodyFailed(d) =>
                  (d.outcome.events = <<"nack_drop">> /\ ~d.outcome.invoked)
            /\ (~BodyFailed(d) /\ d.callback_raises # "no") =>
                  d.outcome.events = <<"nack_requeue">>
            /\ (~BodyFailed(d) /\ d.callback_raises = "no") =>
                  (d.outcome.events = <<"ack">> /\ d.outcome.invoked)

\* C9: when the message of an article with a title is acked, exactly one
\* signal per matched pair has been published for it.
C9_OneSignalPerMatchedPair ==
    \A n \in 1..Len(last_delivery) :
        LET d == last_delivery[n]
        IN  (d.events = <<"ack">>
               /\ d.result.stage \in {"no_pairs", "published", "publish_failed"}) =>
            /\ Len(d.result.published) = Len(d.result.matched)
            /\ \A k \in 1..Len(d.result.matched) :
                  d.result.published[k].pair = d.result.matched[k]

\* C14: the boot consumes when the cache is reachable and answers the ping,
\* and exits with status 1, nothing consumed, when the cache is unreachable.
C14_BootPingsCache ==
    \A n \in 1..Len(cacher_boot) :
        LET b == cacher_boot[n]
        IN  /\ (b.reachable /\ b.ping_answers) => b.result = "consuming"
            /\ ~b.reachable =>
                  (b.result = "exit_1" /\ cacher_stats.signals_processed = 0)

\* C15: a payload accepted by RawMarketDataMessage has high >= open, close
\* and low, low <= open, close and high, each of open, high, low, close
\* strictly between 1e-6 and 1e6, and volume >= 0.
C15_AcceptedCandleCoherent ==
    \A n \in 1..Len(schema_last) :
        LET p == schema_last[n].payload
        IN  (schema_last[n].schema = "RawMarketDataMessage"
               /\ schema_last[n].result.accepted) =>
            /\ \A v \in {p.open, p.close, p.low} : ~PriceLt(p.high, v)
            /\ \A v \in {p.open, p.close, p.high} : ~PriceLt(v, p.low)
            /\ \A v \in {p.open, p.high, p.low, p.close} :
                  PriceLt(Price(10, -7), v) /\ PriceLt(v, Price(10, 5))
            /\ RatGe(p.volume, Rat(0, 1))

\* the URL as it is read: tabs and line breaks inside a URL are dropped
UrlRead(url) == SelectSeq(url, LAMBDA c : c \notin {"\t", "\r", "\n"})

\* the text is scheme, then a listed domain in any case, then nothing or a
\* path, query or fragment
UrlOfDomain(url, scheme, domain) ==
    LET k == Len(scheme) + Len(domain)
    IN  /\ Len(url) >= k
        /\ SubSeq(url, 1, Len(scheme)) = scheme
        /\ Lower(SubSeq(url, Len(scheme) + 1, k)) = domain
        /\ (Len(url) = k \/ url[k + 1] \in {"/", "?", "#"})

\* C16: a payload accepted by RawNewsMessage has a whitelisted source and an
\* http or https URL whose domain is one ALLOWED_NEWS_DOMAINS lists for the
\* source; with an empty list for the source, no URL is accepted.
C16_AcceptedNewsFromListedDomain ==
    \A n \in 1..Len(schema_last) :
        LET p == schema_last[n].payload
            domains == schema_last[n].allowed_news_domains
        IN  (schema_last[n].schema = "RawNewsMessage"
               /\ schema_last[n].result.accepted) =>
            /\ Lower(p.source) \in DOMAIN ALLOWED_NEWS_DOMAINS
            /\ \E scheme \in {<<"h","t","t","p",":","/","/">>,
                              <<"h","t","t","p","s",":","/","/">>} :
                  \E domain \in domains[Lower(p.source)] :
                      UrlOfDomain(UrlRead(p.url), scheme, domain)
            /\ domains[Lower(p.source)] # {}

\* a payload is accepted whose source is written in capitals and whose URL
\* names the domain in capitals
C16_Witness ==
    /\ schema_last # << >>
    /\ schema_last[1].schema = "RawNewsMessage"
    /\ schema_last[1].result.accepted
    /\ schema_last[1].payload.source = <<"C","o","i","n","D","e","s","k">>
    /\ schema_last[1].payload.url # Lower(schema_last[1].payload.url)
    /\ schema_last[1].result.values["source"] = <<"c","o","i","n","d","e","s","k">>

\* C19: the label of a score is very_bullish from +0.7, bullish from +0.3,
\* very_bearish up to -0.7, bearish up to -0.3 and neutral between, and the
\* monitor, reading the cached score, gives the label the processor gave.
C19_LabelsAgree ==
    \A n \in 1..Len(label_last) :
        LET d == label_last[n]
            s == d.score
        IN  /\ d.label = (IF RatGe(s, Rat(7, 10)) THEN "very_bullish"
                          ELSE IF RatGe(s, Rat(3, 10)) THEN "bullish"
                          ELSE IF RatLe(s, Rat(-7, 10)) THEN "very_bearish"
                          ELSE IF RatLe(s, Rat(-3, 10)) THEN "bearish"
                          ELSE "neutral")
            /\ (s = Rat(30, 100) => d.label = "bullish")
            /\ (s = Rat(29, 100) => d.label = "neutral")
            /\ (s = Rat(-30, 100) => d.label = "bearish")
            /\ d.monitor.raised = "no"
            /\ d.monitor.label = d.label

\* the message is an article whose link is not of a domain listed for its source
LinkNotOfSource(body) ==
    /\ body.utf8 = "value" /\ body.v.t = "dict"
    /\ {"source", "link"} \subseteq DOMAIN body.v.v
    /\ body.v.v["source"].t = "str" /\ body.v.v["link"].t = "str"
    /\ LET source == Lower(body.v.v["source"].v)
       IN  \/ source \notin DOMAIN ALLOWED_NEWS_DOMAINS
           \/ Lower(netloc(body.v.v["link"].v)) \notin ALLOWED_NEWS_DOMAINS[source]

\* C17: a news message whose URL is not of a domain of its claimed source is
\* rejected by the processor: it is not acked and no signal is published
\* for it.
C17_SpoofedNewsRejected ==
    \A n \in 1..Len(last_delivery) :
        LET d == last_delivery[n]
        IN  LinkNotOfSource(d.msg.body) =>
            /\ d.events = <<"nack_drop">>
            /\ d.result.published = << >>
            /\ \A k \in 1..Len(sentiment_signals_queue) :
                  sentiment_signals_queue[k].article_id # d.msg.body.v.v["article_id"]

\* the keyword occurs in the text with no word character before or after it
OccursAsWord(keyword, text) ==
    \E i \in 1..(Len(text) - Len(keyword) + 1) :
        LET j == i + Len(keyword) - 1
        IN  /\ \A k \in 1..Len(keyword) : text[i + k - 1] = keyword[k]
            /\ (i = 1 \/ text[i - 1] \notin WordChars)
            /\ (j = Len(text) \/ text[j + 1] \notin WordChars)

\* the configured pairs with a keyword that occurs as a word in the text
PairsNamedIn(text) ==
    {TRADING_PAIRS[k].pair : k \in
        {k \in 1..Len(TRADING_PAIRS) :
            \E m \in 1..Len(TRADING_PAIRS[k].keywords) :
                OccursAsWord(TRADING_PAIRS[k].keywords[m], text)}}

\* C20: the pairs matched to an article are exactly the configured pairs
\* with a keyword occurring as a whole word in title and content; when there
\* is none and crypto, cryptocurrency, blockchain or market occurs, they are
\* all configured pairs; otherwise there is none and no signal is published.
C20_MatchedPairsExact ==
    \A n \in 1..Len(last_delivery) :
        LET d == last_delivery[n]
            news == d.msg.body.v.v
            text == Lower(news["title"].v \o <<" ">> \o news["content"].v)
            named == PairsNamedIn(text)
            general == \E g \in {<<"c","r","y","p","t","o">>,
                                 <<"c","r","y","p","t","o","c","u","r","r","e","n","c","y">>,
                                 <<"b","l","o","c","k","c","h","a","i","n">>,
                                 <<"m","a","r","k","e","t">>} : Contains(text, g)
            all == {TRADING_PAIRS[k].pair : k \in 1..Len(TRADING_PAIRS)}
            matched == {d.result.matched[k] : k \in 1..Len(d.result.matched)}
        IN  (d.result.stage \in {"no_pairs", "published", "publish_failed"}
               /\ news["title"].t = "str" /\ news["content"].t = "str") =>
            /\ Len(d.result.matched) = Cardinality(matched)
            /\ matched = (IF named # {} THEN named
                          ELSE IF general THEN all ELSE {})
            /\ matched = {} => (d.result.stage = "no_pairs" /\ d.result.published = << >>)

\* an article naming two of the three pairs was matched to these two
C20_Witness ==
    /\ last_delivery # << >>
    /\ last_delivery[1].result.stage = "published"
    /\ last_delivery[1].result.matched = <<"BTC/USDT", "ETH/USDT">>
    /\ Len(last_delivery[1].result.published) = 2

\* the text is three to five capital letters, a slash, three to five capital
\* letters
IsPairText(text) ==
    \E b \in 3..5, q \in 3..5 :
        /\ Len(text) = b + q + 1
        /\ text[b + 1] = "/"
        /\ \A i \in (1..Len(text)) \ {b + 1} : text[i] \in AsciiUpper

\* the text without the whitespace around it
Trimmed(text) ==
    IF \A k \in 1..Len(text) : text[k] \in Whitespace THEN << >>
    ELSE LET first == CHOOSE i \in 1..Len(text) :
                          /\ text[i] \notin Whitespace
                          /\ \A j \in 1..(i - 1) : text[j] \in Whitespace
             last == CHOOSE i \in 1..Len(text) :
                          /\ text[i] \notin Whitespace
                          /\ \A j \in (i + 1)..Len(text) : text[j] \in Whitespace
         IN  SubSeq(text, first, last)

\* C21 as stated: the accepted pairs are exactly the comma-separated
\* entries that match ^[A-Z]{3,5}/[A-Z]{3,5}$, every other entry is skipped,
\* and the processor does not start when none is left.
C21_AcceptedAreMatchingEntries ==
    \A n \in 1..Len(pairs_last) :
        LET d == pairs_last[n]
            valid == {d.entries[k] : k \in {i \in 1..Len(d.entries) :
                                               IsPairText(d.entries[i])}}
        IN  d.pairs_env # << >> =>
            /\ d.started = (valid # {})
            /\ d.started =>
                  {d.trading_pairs[k] : k \in 1..Len(d.trading_pairs)} = valid

\* C21, amended: the accepted pairs are exactly the entries that match the
\* pattern once the whitespace around them is removed, each once; every
\* other entry is skipped, and the processor does not start when none is
\* left.
C21_AcceptedAreTrimmedMatchingEntries ==
    \A n \in 1..Len(pairs_last) :
        LET d == pairs_last[n]
            valid == {Trimmed(d.entries[k]) : k \in {i \in 1..Len(d.entries) :
                                                        IsPairText(Trimmed(d.entries[i]))}}
        IN  d.pairs_env # << >> =>
            /\ d.started = (valid # {})
            /\ d.started =>
                  /\ {d.trading_pairs[k] : k \in 1..Len(d.trading_pairs)} = valid
                  /\ Len(d.trading_pairs) = Cardinality(valid)

\* an entry with blanks around it was accepted next to an entry that was skipped
C21_Witness ==
    /\ pairs_last # << >>
    /\ Len(pairs_last[1].entries) = 2
    /\ pairs_last[1].entries[1] = <<"b","t","c","/","u","s","d","t">>
    /\ pairs_last[1].entries[2] = <<" ","E","T","H","/","U","S","D","T"," ">>
    /\ pairs_last[1].started
    /\ pairs_last[1].trading_pairs = << <<"E","T","H","/","U","S","D","T">> >>


\* C22: every candle the exchange stream delivers for a pair with a
\* timestamp greater than the last one published for the pair is published
\* to raw_market_data. The handling of one delivery has no await between
\* the duplicate check and the publish, and a timestamp stored in
\* last_candles is refused ever after, so the candle is published exactly
\* when it is on the queue once the delivery has been handled.
C22_NewCandlePublished ==
    \A symbol \in DOMAIN last_candles :
        \E i \in 1..Len(raw_market_data) :
            /\ raw_market_data[i].symbol = symbol
            /\ raw_market_data[i].timestamp_ms = last_candles[symbol]


\* the variable is not set, or set to the empty string
Missing(env, var_name) == ~Truthy(getenv(env, var_name))

\* C23: for every service, environment validation fails (the service exits
\* with status 1) when RABBITMQ_USER or RABBITMQ_PASS is missing.
C23_MissingBrokerCredentialFails ==
    \A k \in 1..Len(env_last) :
        ( \/ Missing(env_last[k].env, <<"R","A","B","B","I","T","M","Q","_","U","S","E","R">>)
          \/ Missing(env_last[k].env, <<"R","A","B","B","I","T","M","Q","_","P","A","S","S">>) )
            => env_last[k].exit = 1

\* the dry-run flag waives the variable: DRY_RUN is "true" in any case of
\* the letters and the variable names that condition
Waived(env, spec) ==
    /\ spec.optional_if = DRY_RUN_true
    /\ <<"D","R","Y","_","R","U","N">> \in DOMAIN env
    /\ Lower(env[<<"D","R","Y","_","R","U","N">>]) = <<"t","r","u","e">>

\* the variable is why validation fails: missing with no default and no
\* waiver, or set to a value its validation function does not accept
Offending(env, spec) ==
    IF Missing(env, spec.var_name)
    THEN spec.default = JNull /\ ~Waived(env, spec)
    ELSE validation(spec.validation, env[spec.var_name]) # "True"

\* C24: validate_env_for_service exits with status 1 if and only if a
\* variable of the service's profile is missing without a default and
\* without a waiver, or fails its validation function; otherwise it returns.
C24_ExitIffOffendingVariable ==
    \A k \in 1..Len(env_last) :
        LET profile == required_vars_of(service_type_map[env_last[k].service_name])
        IN  /\ env_last[k].exit \in {0, 1}
            /\ env_last[k].exit = 1 <=>
                  \E n \in 1..Len(profile) : Offending(env_last[k].env, profile[n])

\* the trading bot starts in dry-run mode (DRY_RUN=TRUE) without exchange
\* credentials
C24_Witness ==
    \E k \in 1..Len(env_last) :
        /\ env_last[k].service_name = "trading-bot"
        /\ env_last[k].exit = 0
        /\ <<"D","R","Y","_","R","U","N">> \in DOMAIN env_last[k].env
        /\ env_last[k].env[<<"D","R","Y","_","R","U","N">>] = <<"T","R","U","E">>
        /\ Missing(env_last[k].env,
                   <<"B","I","N","A","N","C","E","_","A","P","I","_","K","E","Y">>)

\* the text holds the value in one of the strings substituted into it
TextHolds(text, value) ==
    \E p \in 1..Len(text) : Contains(text[p].chars, value)

\* C25: no line printed and no error collected by environment validation
\* contains the value of a variable whose name contains PASS, SECRET, KEY or
\* TOKEN, whether validation passes or fails.
C25_SensitiveValuesNotShown ==
    \A k \in 1..Len(env_last) :
        \A var_name \in DOMAIN env_last[k].env :
            (sensitive(var_name) /\ env_last[k].env[var_name] # << >>) =>
                /\ \A e \in 1..Len(env_last[k].errors) :
                      ~TextHolds(env_last[k].errors[e], env_last[k].env[var_name])
                /\ \A l \in 1..Len(env_last[k].printed) :
                      ~TextHolds(env_last[k].printed[l], env_last[k].env[var_name])


\* C26: an article whose publish fails is not added to published_articles
\* (an id enters the set only in a step that puts its article on
\* raw_news_data), and an article that failed before and was not published
\* since is published by a poll that finds it in the feed and whose
\* publishes all succeed.
C26_FailedPublishRetried ==
    [][ /\ \A id \in published_articles' \ published_articles :
              ArticleIdCount(id)' > ArticleIdCount(id)
        /\ \A entries \in FeedResults :
              PollFeed(entries, {}) =>
                  \A k \in 1..Len(entries) :
                      LET id == _generate_article_id(entries[k].title, entries[k].link)
                      IN  (id \in publish_errors /\ id \notin published_articles) =>
                              /\ ArticleIdCount(id)' > ArticleIdCount(id)
                              /\ id \in published_articles'
      ]_vars

\* an article whose publish failed has been published once since
C26_Witness ==
    \E id \in publish_errors :
        /\ id \in published_articles
        /\ ArticleIdCount(id) = 1
        /\ cycle_count >= 1


\* C27: populate_entry_trend sets enter_long on a candle exactly when
\* sentiment > 0.3, ema_short > ema_long, 30 < rsi < 70, macd > macdsignal,
\* volume > volume_mean and close < bb_upper, a missing (NaN) indicator
\* failing its comparison; a candle with sentiment 0 is never entered.
C27_EnterLongIffAllConditions ==
    \A n \in 1..Len(entry_last) :
        \A k \in 1..Len(entry_last[n].dataframe) :
            LET row == entry_last[n].dataframe[k]
                known == \A c \in {"ema_short", "ema_long", "rsi", "macd", "macdsignal",
                                   "volume", "volume_mean", "close", "bb_upper"} :
                            ~row[c].nan
            IN  /\ entry_last[n].enter_long[k] = F(1) <=>
                      /\ known
                      /\ row.sentiment.num * 10 > 3 * row.sentiment.den
                      /\ row.ema_short.x > row.ema_long.x
                      /\ 30 < row.rsi.x /\ row.rsi.x < 70
                      /\ row.macd.x > row.macdsignal.x
                      /\ row.volume.x > row.volume_mean.x
                      /\ row.close.x < row.bb_upper.x
                /\ entry_last[n].enter_long[k] \in {F(1), NaN}
                /\ row.sentiment.num = 0 => entry_last[n].enter_long[k] = NaN

\* a candle at the sentiment threshold after one that is entered
C27_Witness ==
    \E n \in 1..Len(entry_last) :
        /\ Len(entry_last[n].dataframe) = 2
        /\ entry_last[n].enter_long[1] = F(1)
        /\ entry_last[n].dataframe[2].sentiment = Rat(3, 10)
        /\ entry_last[n].dataframe[2].rsi = F(50)
        /\ entry_last[n].dataframe[2].ema_long = F(1)
        /\ entry_last[n].dataframe[2].macdsignal = F(0)
        /\ entry_last[n].dataframe[2].volume_mean = F(4)
        /\ entry_last[n].dataframe[2].bb_upper = F(10)
        /\ entry_last[n].enter_long[2] = NaN


\* the rows of the frame for the pair at or before hour T, and the latest
\* of them
PairSignalsUpTo(frame, pair, T) ==
    { i \in SignalsUpTo(frame, T) : frame.rows[i].pair = pair }

\* C28: confirm_trade_entry answers from the current signal of the trade's
\* pair: False when the latest signal of the pair at or before current_time
\* scores below sentiment_buy_threshold (or the pair has none, score 0),
\* True otherwise.
C28_ConfirmUsesPairSignal ==
    \A n \in 1..Len(last_confirm) :
        LET c == last_confirm[n]
            own == PairSignalsUpTo(c.sentiment_df, c.pair, c.current_time.hour)
            latest == { i \in own : \A j \in own :
                           c.sentiment_df.rows[j].timestamp.hour
                               <= c.sentiment_df.rows[i].timestamp.hour }
        IN  IF own = {} THEN c.confirmed = FALSE
            ELSE \E i \in latest :
                    c.confirmed = RatGe(c.sentiment_df.rows[i].sentiment_score,
                                        sentiment_buy_threshold)


\* position of the first occurrence of a call in the calls of a log entry,
\* 0 when it is not made
CallAt(calls, name) ==
    IF \E i \in 1..Len(calls) : calls[i] = name
    THEN CHOOSE i \in 1..Len(calls) : calls[i] = name /\ \A j \in 1..(i - 1) : calls[j] # name
    ELSE 0

\* C29: on shutdown the signal cacher closes the cache connection before it
\* closes the broker connection.
C29_CacheClosedBeforeBroker ==
    \A n \in 1..Len(call_log) :
        (call_log[n].op = "shutdown"
            /\ CallAt(call_log[n].calls, "connection.close") > 0) =>
                /\ CallAt(call_log[n].calls, "redis.close") > 0
                /\ CallAt(call_log[n].calls, "redis.close")
                      < CallAt(call_log[n].calls, "connection.close")

\* the number of times a call is made in the calls of a log entry
CallCount(calls, name) == Cardinality({i \in 1..Len(calls) : calls[i] = name})

\* C30: RabbitMQClient.close() closes the channel and then the connection,
\* each once when it is open, and makes no call for one that is closed or
\* was never opened; a close() that follows a close() makes no call and
\* leaves the client as it is.
C30_CloseOncePerOpenObject ==
    \A n \in 1..Len(call_log) :
        call_log[n].op = "close" =>
            LET e == call_log[n]
                after == IF n < Len(call_log) THEN call_log[n + 1].before ELSE rabbitmq
            IN  /\ CallCount(e.calls, "channel.close")
                      = (IF e.before.channel = "open" THEN 1 ELSE 0)
                /\ CallCount(e.calls, "connection.close")
                      = (IF e.before.connection = "open" THEN 1 ELSE 0)
                /\ Len(e.calls) = CallCount(e.calls, "channel.close")
                                    + CallCount(e.calls, "connection.close")
                /\ (Len(e.calls) = 2 => e.calls[1] = "channel.close")
                /\ after.channel # "open" /\ after.connection # "open"
                /\ (e.before.channel # "open" => after.channel = e.before.channel)
                /\ (e.before.connection # "open" => after.connection = e.before.connection)
                /\ (n > 1 /\ call_log[n - 1].op = "close") =>
                      (e.calls = << >> /\ after = e.before)

\* close() on a connected client makes both calls, and two more close()
\* follow it
C30_Witness ==
    /\ Len(call_log) = 4
    /\ call_log[1].op = "connect"
    /\ call_log[2].op = "close"
    /\ call_log[2].calls = <<"channel.close", "connection.close">>
    /\ call_log[3].op = "close"
    /\ call_log[4].op = "close"
    /\ rabbitmq.connection = "closed"
    /\ rabbitmq.channel = "closed"


\* the timestamp of the last candle on raw_market_data for the symbol, 0
\* when none was published
LastPublishedTs(symbol) ==
    LET of == { i \in 1..Len(raw_market_data) : raw_market_data[i].symbol = symbol }
    IN  IF of = {} THEN 0
        ELSE raw_market_data[CHOOSE i \in of : \A j \in of : j <= i].timestamp_ms

\* C31: in every reachable state last_candles[pair] (0 when unset) is the
\* timestamp of the last candle published for the pair, also after a
\* publish attempt that failed.
C31_LastCandleIsLastPublished ==
    \A t \in Tasks :
        LastTs(last_candles, symbols[t]) = LastPublishedTs(symbols[t])


\* C32: an error raised while streaming one pair puts that pair's task to
\* sleep and leaves every other task where it is; a task ends only by
\* cancellation; and a sleeping task leaves its sleep (it resumes its loop,
\* unless it is cancelled meanwhile).
C32_ErrorsNeverEndTasks ==
    /\ [][ /\ \A t \in Tasks :
                 (task_pc[t] \in {"watch", "sleep"} /\ task_pc'[t] \notin {"watch", "sleep"})
                     => CancelTask(t)
           /\ \A t \in Tasks :
                 (task_pc[t] = "watch" /\ task_pc'[t] = "sleep") =>
                     \A u \in Tasks \ {t} : task_pc'[u] = task_pc[u]
           /\ \A t \in Tasks :
                 (task_pc[t] = "sleep" /\ task_pc'[t] # "sleep") =>
                     (task_pc'[t] = "watch" \/ CancelTask(t))
         ]_vars
    /\ \A t \in Tasks : (task_pc[t] = "sleep") ~> (task_pc[t] # "sleep")

\* one task sleeps after an error while the other two keep watching, a
\* candle of the sleeping task's pair having been published before
C32_Witness ==
    /\ task_pc[2] = "sleep"
    /\ task_pc[1] = "watch"
    /\ task_pc[3] = "watch"
    /\ \E i \in 1..Len(raw_market_data) : raw_market_data[i].symbol = symbols[2]
    /\ \E i \in 1..Len(raw_market_data) : raw_market_data[i].symbol = symbols[1]


\* C33: connect() makes at most max_retries attempts, sleeps once after
\* every failed attempt but the last, returns on the first success, raises
\* ConnectionError after the last failed attempt, and whenever it returns
\* normally, for any max_retries, the client holds an open connection.
C33_ConnectReturnsConnected ==
    \A n \in 1..Len(connect_last) :
        LET c == connect_last[n]
        IN  /\ c.attempts <= c.max_retries
            /\ c.result = "ConnectionError" =>
                  (c.attempts = c.max_retries /\ c.sleeps = c.attempts - 1)
            /\ c.result = "returned" =>
                  /\ c.sleeps = c.attempts - 1
                  /\ c.attempts = c.fails_first + 1
                  /\ c.client.connection = "open"


\* C34: when ensure_connection() returns normally the client holds an open
\* connection and an open channel made by that connection, whatever it
\* started from; declare_queue, publish and consume call ensure_connection
\* before any call on the channel.
C34_EnsuredBeforeChannelUse ==
    /\ \A n \in 1..Len(ensure_last) :
          ensure_last[n].result = "returned" =>
              /\ ensure_last[n].client.connection = "open"
              /\ ensure_last[n].client.channel = "open"
              /\ ensure_last[n].client.channel_of = "connection"
    /\ \A n \in 1..Len(call_log) :
          call_log[n].op \in {"declare_queue", "publish", "consume"} =>
              /\ call_log[n].calls[1] = "ensure_connection"
              /\ Len(call_log[n].calls) > 1 =>
                    /\ n < Len(call_log) => call_log[n + 1].before.channel = "open"
                    /\ n = Len(call_log) => rabbitmq.channel = "open"

C34_Witness ==
    /\ ensure_last # << >>
    /\ ensure_last[1].result = "returned"
    /\ ensure_last[1].before.connection = "closed"
    /\ ensure_last[1].before.channel = "closed"
    /\ call_log[Len(call_log)].op = "publish"
    /\ Len(call_log[Len(call_log)].calls) = 4


\* C35: a polling cycle ends with at most 10 000 ids in the recent-seen
\* set, and a set that grew above 10 000 is cut to the 8 000 most recently
\* inserted ids: of the ranks observed, the ones kept are those among the
\* 8 000 newest.
C35_PrunedToMostRecent ==
    \A k \in 1..Len(prune_last) :
        LET n == prune_last[k].n
            kept == prune_last[k].kept
        IN  /\ prune_last[k].size <= PruneHigh
            /\ n > PruneHigh =>
                  /\ prune_last[k].size = PruneKeep
                  /\ kept = {r \in Tracked(n) : r > n - PruneKeep}
            /\ n <= PruneHigh =>
                  /\ prune_last[k].size = n
                  /\ kept = Tracked(n)


\* C37: merge_with_market_data returns one row per candle, carrying the
\* score of the latest sentiment row at or before the candle and at most
\* the tolerance (6 h when none is given) older, or 0.0 when there is no
\* such row; no returned row carries sentiment later than its candle.
C37_MergeAttachesLatestWithinTolerance ==
    \A n \in 1..Len(merge_last) :
        LET call == merge_last[n]
            tolerance == IF call.tolerance_hours = << >> THEN validator_tolerance_hours
                         ELSE call.tolerance_hours[1]
            Eligible(at) ==
                { i \in 1..Len(call.sentiment_df) :
                     /\ call.sentiment_df[i].timestamp.hour <= at
                     /\ at - call.sentiment_df[i].timestamp.hour <= tolerance }
            Latest(at) ==
                { i \in Eligible(at) :
                     \A j \in Eligible(at) :
                        call.sentiment_df[j].timestamp.hour
                            <= call.sentiment_df[i].timestamp.hour }
        IN  /\ Len(call.result) = Len(call.market_df)
            /\ \A k \in 1..Len(call.market_df) :
                  \E r \in 1..Len(call.result) :
                     /\ call.result[r].timestamp = call.market_df[k].timestamp
                     /\ call.result[r].close = call.market_df[k].close
                     /\ IF Eligible(call.market_df[k].timestamp.hour) = {}
                        THEN call.result[r].sentiment_score.x = Rat(0, 1)
                        ELSE \E i \in Latest(call.market_df[k].timestamp.hour) :
                                call.result[r].sentiment_score.x
                                    = call.sentiment_df[i].sentiment_score
            /\ \A r \in 1..Len(call.result) :
                  call.result[r].sentiment_at.kind = "ok" =>
                      call.result[r].sentiment_at.hour <= call.result[r].timestamp.hour


\* C39: a RedisClient data operation never raises: when the connection
\* check, the reconnect (also after max_retries failed attempts) or the
\* command fails, it returns its failure default, which is False for
\* set_json and expire, 0 for hset_json, lpush, delete and exists, {} for
\* hgetall_json, [] for lrange and keys and the caller's default for get_json
\* and hget; when nothing fails it returns what the command answered.
C39_DataOpsReturnDefaults ==
    \A n \in 1..Len(redis_last) :
        LET call == redis_last[n]
            reconnects == \/ call.client = "None"
                          \/ call.ping \in {"ConnectionError", "TimeoutError"}
            check_fails == call.client # "None" /\ call.ping = "ResponseError"
            reconnect_fails == /\ reconnects
                               /\ call.max_retries > 0
                               /\ call.fails_first >= call.max_retries
            no_client == reconnects /\ call.max_retries = 0 /\ call.client = "None"
            command_fails == \/ call.reply = "raises"
                             \/ call.op = "get_json" /\ call.reply = "not_json"
            failed == check_fails \/ reconnect_fails \/ no_client \/ command_fails
        IN  /\ call.outcome.raised = "no"
            /\ failed =>
                  call.outcome.value =
                      CASE call.op \in {"set_json", "expire"} -> "False"
                        [] call.op \in {"hset_json", "lpush", "delete", "exists"} -> "0"
                        [] call.op = "hgetall_json" -> "{}"
                        [] call.op \in {"lrange", "keys"} -> "[]"
                        [] call.op \in {"get_json", "hget"} -> "default"
            /\ ~failed =>
                  call.outcome.value =
                      CASE call.reply = "None" -> "default"
                        [] call.reply = "json" -> "loads"
                        [] call.reply = "hash" -> "dict"
                        [] OTHER -> call.reply

\* hset_json on a lost connection, with every reconnect attempt failing
C39_Witness ==
    /\ redis_last # << >>
    /\ redis_last[1].op = "hset_json"
    /\ redis_last[1].client = "Redis"
    /\ redis_last[1].ping = "ConnectionError"
    /\ redis_last[1].max_retries = MaxRetries
    /\ redis_last[1].fails_first = MaxRetries
    /\ redis_last[1].reply = "n"
    /\ redis_last[1].outcome.raised = "no"
    /\ redis_last[1].outcome.value = "0"
    /\ redis_last[1].outcome.command = "none"


====
